---- MODULE Spec2Model ----
(***************************************************************************)
(* Field-level lineage resolution of beauschwab/datahub-infa-autosys.      *)
(*                                                                         *)
(* The module models, as state machines translated from the Python source: *)
(*   - LineageBuilder (informatica_lineage.py): the instance graph, the    *)
(*     recursive upstream trace, the column lineage edges and the dataset  *)
(*     lineage emitted from them;                                          *)
(*   - resolve_upstream_source_fields (dh_infa_autosys/extractors/         *)
(*     informatica_xml.py): the work-stack traversal with a hop limit;     *)
(*   - DataHubLineageEmitter._get_transformation_order: the topological    *)
(*     ordering of the instances of a mapping;                             *)
(*   - SQLLineageParser: the projection lineage of a parsed SELECT;        *)
(*   - CalcScriptParser (essbase_datahub/extractors/calc_extractor.py):    *)
(*     the stack of FIX scopes of a calculation script;                    *)
(*   - SchemaExtractor and LineageExtractor (essbase_datahub/extractors):  *)
(*     the member hierarchy of a cube and its consolidation lineage.       *)
(*                                                                         *)
(* Names (instances, fields, tables) are strings drawn free of ".", so the *)
(* f-string keys "{a}.{b}" of the source are in one-to-one correspondence  *)
(* with the pairs <<a, b>> that model them.  Confidence scores are kept in *)
(* hundredths (1.0 is 100, 0.95 is 95).                                    *)
(***************************************************************************)
EXTENDS Integers, Sequences, FiniteSets, TLC

VARIABLES
    \* ---- inputs of LineageBuilder / DataHubLineageEmitter
    mapping,          \* MappingInfo: instances, connectors, transformations
    folder,           \* FolderInfo: sources, targets, transformations
    \* ---- LineageBuilder.build_column_lineage_edges and what it calls
    pc,               \* position in the call
    instance_graph,   \* result of _build_instance_graph
    todo,             \* target fields build_mapping_lineage has still to trace
    calls,            \* pending _trace_field_lineage calls (top first)
    visited,          \* the visited set shared by one top-level trace
    steps,            \* TransformationSteps of the running trace, discovery order
    processed,        \* number of calls of the running trace that passed the visited check
    lineage_chains,   \* dict field_key -> chain, in insertion order
    edges,            \* List[ColumnLineageEdge] returned
    job_io,           \* fine-grained lineage _build_job_io made of the edges
    mcps,             \* UpstreamLineage proposals buffered by emit_dataset_lineage
    \* ---- graph construction, one connector at a time
    gpc, gi, gconn, ggraph, gindex,
    \* ---- resolve_upstream_source_fields
    rpc, rmapping, max_hops, reverse_edges, seen, frontier, hops, rresult,
    rtarget,           \* (target_instance, target_field) of the call
    \* ---- _get_transformation_order
    spc, incoming, outgoing, no_incoming, result,
    \* ---- SQLLineageParser
    qpc, sql, source_tables, qresults,
    qtarget,           \* the target column of the _parse_sql_lineage call
    \* ---- CalcScriptParser._parse_script_body
    cpc, script, line_num, fix_stack, transforms,
    \* ---- SchemaExtractor.extract_cube and LineageExtractor.extract_consolidation_lineage
    hpc, dim_data, cube, hdim, lineage_mappings,
    \* ---- extract_port_references
    epc, eexpr, erefs,       \* expr and refs of the call
    \* ---- parse_jil_text
    jpc, jil_text, jline, jcurrent, export,
    \* ---- LineageExtractor.extract_member_formula_lineage, call after call
    mcalls, mcube, member_dimension_cache, formula_lineage,
    \* ---- InformaticaXMLParser._parse_workflow
    wpc, task_instances, workflow_links, task_order, next_tasks, wqueue, wvisited, ordered_sessions, workflow_sessions,
    \* ---- InformaticaLineageExtractor.process_xml_file, file after file
    xpc, xml_files, folders_left, xfolder, xsession, all_lineage_edges, emitter_mcps

lbVars == <<mapping, folder, pc, instance_graph, todo, calls, visited, steps,
            processed, lineage_chains, edges, job_io, mcps>>
gVars  == <<gpc, gi, gconn, ggraph, gindex>>
rVars  == <<rpc, rmapping, max_hops, reverse_edges, seen, frontier, hops, rresult,
            rtarget>>
sVars  == <<spc, incoming, outgoing, no_incoming, result>>
qVars  == <<qpc, sql, source_tables, qresults, qtarget>>
cVars  == <<cpc, script, line_num, fix_stack, transforms>>
hVars  == <<hpc, dim_data, cube, hdim, lineage_mappings>>
eVars  == <<epc, eexpr, erefs>>
jVars  == <<jpc, jil_text, jline, jcurrent, export>>
mVars  == <<mcalls, mcube, member_dimension_cache, formula_lineage>>
wVars  == <<wpc, task_instances, workflow_links, task_order, next_tasks, wqueue, wvisited, ordered_sessions, workflow_sessions>>
xVars  == <<xpc, xml_files, folders_left, xfolder, xsession, all_lineage_edges, emitter_mcps>>
vars   == <<lbVars, gVars, rVars, sVars, qVars, cVars, hVars, eVars, jVars, mVars, wVars, xVars>>

-----------------------------------------------------------------------------
(* Python values *)

None == "None"

\* Expression and query texts are sequences of tokens; None and "" are both
\* the empty sequence (the source only tests them for truth).
NoExpr == <<>>

\* dict.get / dict[k] = v on a TLA+ function
EmptyDict == <<>>
Put(d, k, v) == [x \in (DOMAIN d) \cup {k} |-> IF x = k THEN v ELSE d[x]]
Get(d, k, default) == IF k \in DOMAIN d THEN d[k] ELSE default

Range(s) == {s[i] : i \in DOMAIN s}

\* All sequences over S of length at most n
SeqsUpTo(S, n) == UNION {[1..k -> S] : k \in 0..n}

RECURSIVE Flatten(_)
Flatten(ss) == IF ss = <<>> THEN <<>> ELSE Head(ss) \o Flatten(Tail(ss))


-----------------------------------------------------------------------------
(* TransformationType values used by the model *)

SOURCE_DEFINITION == "Source Definition"
SOURCE_QUALIFIER  == "Source Qualifier"
TARGET_DEFINITION == "Target Definition"
EXPRESSION        == "Expression"
STORED_PROCEDURE  == "Stored Procedure"

Connector(fi, ff, ti, tf) ==
    [from_instance |-> fi, from_field |-> ff, to_instance |-> ti, to_field |-> tf]

\* mapping.instances is an insertion-ordered dict: a sequence of InstanceInfo
\* with distinct names.
InstanceNames(m) == {m.instances[i].name : i \in DOMAIN m.instances}
HasInstance(m, name) == name \in InstanceNames(m)
InstanceGet(m, name) ==
    m.instances[CHOOSE i \in DOMAIN m.instances : m.instances[i].name = name]

-----------------------------------------------------------------------------
(* LineageBuilder._build_instance_graph *)

\* One iteration of the loop over mapping.connectors: the list of
\* (from_instance, from_field) under graph[to_instance][to_field] grows by one.
GraphAdd(graph, c) ==
    LET g1 == IF c.to_instance \in DOMAIN graph THEN graph
              ELSE Put(graph, c.to_instance, EmptyDict)
        g2 == IF c.to_field \in DOMAIN g1[c.to_instance] THEN g1
              ELSE [g1 EXCEPT ![c.to_instance] = Put(@, c.to_field, <<>>)]
    IN [g2 EXCEPT ![c.to_instance][c.to_field] =
            Append(@, <<c.from_instance, c.from_field>>)]

RECURSIVE BuildFrom(_, _)
BuildFrom(graph, conns) ==
    IF conns = <<>> THEN graph
    ELSE BuildFrom(GraphAdd(graph, Head(conns)), Tail(conns))

BuildInstanceGraph(m) == BuildFrom(EmptyDict, m.connectors)

\* instance_graph.get(inst, {}).get(field, [])
UpstreamFields(graph, inst, fld) == Get(Get(graph, inst, EmptyDict), fld, <<>>)

-----------------------------------------------------------------------------
(* LineageBuilder._get_transformation *)

\* "trans" is not None
HasTransformation(m, f, instance) ==
    \/ instance.transformation_name \in DOMAIN m.transformations
    \/ instance.transformation_name \in DOMAIN f.transformations

\* mapping-level transformations first, then the folder's reusable ones
GetTransformation(m, f, instance) ==
    IF instance.transformation_name \in DOMAIN m.transformations
    THEN m.transformations[instance.transformation_name]
    ELSE f.transformations[instance.transformation_name]

-----------------------------------------------------------------------------
(* LineageBuilder._trace_field_lineage *)

\* visit_key = f"{target_instance}.{target_field}"
VisitKey(inst, fld) == <<inst, fld>>

AlreadyVisitedNever(key, vis) == FALSE

\* if visit_key in visited: return []
AlreadyVisited(key, vis) == key \in vis

StepExpression(m, f, instance_info, fld) ==
    IF HasTransformation(m, f, instance_info)
       /\ fld \in DOMAIN GetTransformation(m, f, instance_info).fields
    THEN GetTransformation(m, f, instance_info).fields[fld].expression
    ELSE NoExpr

TransformationStep(order, inst, type, inputs, fld, expr) ==
    [step_order |-> order, instance_name |-> inst, transformation_type |-> type,
     input_fields |-> inputs, output_fields |-> << <<inst, fld>> >>,
     expression |-> expr]

TraceCallOf(inst, fld, order) == [inst |-> inst, field |-> fld, step_order |-> order]

\* build_mapping_lineage: the (target instance, target name, field) triples in
\* the order of its two loops.
TargetFieldsOf(m, f, inst) ==
    IF inst.transformation_type = TARGET_DEFINITION
       /\ inst.transformation_name \in DOMAIN f.targets
    THEN [k \in DOMAIN f.targets[inst.transformation_name].fields |->
            [inst |-> inst.name, target |-> inst.transformation_name,
             field |-> f.targets[inst.transformation_name].fields[k]]]
    ELSE <<>>

TargetFields(m, f) ==
    Flatten([i \in DOMAIN m.instances |-> TargetFieldsOf(m, f, m.instances[i])])

\* lineage_chains[field_key] = chain on an insertion-ordered dict
ChainPut(chains, key, chain) ==
    IF \E i \in DOMAIN chains : chains[i].key = key
    THEN [i \in DOMAIN chains |->
            IF chains[i].key = key THEN [key |-> key, chain |-> chain] ELSE chains[i]]
    ELSE Append(chains, [key |-> key, chain |-> chain])

-----------------------------------------------------------------------------
(* SQLLineageParser *)

\* str.upper() on the names the model draws
Upper(s) ==
    CASE s = "id"     -> "ID"
      [] s = "a"      -> "A"
      [] s = "orders" -> "ORDERS"
      [] s = "o"      -> "O"
      [] s = "expr_0" -> "EXPR_0"
      [] s = "expr_1" -> "EXPR_1"
      [] s = "expr_2" -> "EXPR_2"
      [] s = "expr_3" -> "EXPR_3"
      [] s = "sch.ORDERS" -> "SCH.ORDERS"
      [] OTHER -> s

\* known.upper().endswith("." + name.upper()), name being a bare identifier:
\* the part of the known name after its last "." is the name
LastSegment(s) ==
    CASE s = "SCH.ORDERS" -> "ORDERS"
      [] s = "SCH.CUST"   -> "CUST"
      [] OTHER -> ""
EndsWithDotName(known, name) == LastSegment(Upper(known)) = Upper(name)

\* A query text is its tokens (what the regular expressions of
\* detect_stored_procedure_call scan) together with what sqlglot.parse_one
\* makes of it: parsed.kind is "select", "not_select", "parse_error"
\* (sqlglot.errors.ParseError) or "error" (any other exception).
NoSql == [text |-> <<>>, parsed |-> [kind |-> "not_select", tables |-> <<>>, expressions |-> <<>>]]
Column(name, table) == [name |-> name, table |-> table]

\* source_tables is an insertion-ordered dict: a sequence of [name, fields].
\* the first known table matching a table of the query, or the table's own name
MatchTable(table_name, tables) ==
    LET hits == {i \in DOMAIN tables :
                    \/ Upper(tables[i].name) = Upper(table_name)
                    \/ EndsWithDotName(tables[i].name, table_name)}
    IN IF hits = {} THEN table_name
       ELSE tables[CHOOSE i \in hits : \A j \in hits : i <= j].name

\* source_refs: alias.upper() -> matched table, filled in the order of
\* parsed.find_all(exp.Table)
RECURSIVE SourceRefsFrom(_, _, _)
SourceRefsFrom(refs, qtables, tables) ==
    IF qtables = <<>> THEN refs
    ELSE LET t == Head(qtables)
             alias == IF t.alias # "" THEN t.alias ELSE t.name
         IN SourceRefsFrom(Put(refs, Upper(alias), MatchTable(t.name, tables)),
                           Tail(qtables), tables)

SourceRefs(parsed, tables) == SourceRefsFrom(EmptyDict, parsed.tables, tables)

\* list(source_refs.values())[0]: the value of the first key inserted
FirstRefValue(parsed, tables) ==
    LET t == parsed.tables[1]
    IN SourceRefs(parsed, tables)[Upper(IF t.alias # "" THEN t.alias ELSE t.name)]

ResolveColumnTableFirst(column_name, tables) ==
    LET candidates == Flatten([i \in DOMAIN tables |->
            [k \in DOMAIN SelectSeq(tables[i].fields,
                                    LAMBDA fn : Upper(fn) = Upper(column_name)) |->
                tables[i].name]])
    IN IF Len(candidates) >= 1 THEN <<candidates[1]>> ELSE <<>>

\* _resolve_column_table: one candidate per (table, field) whose name matches;
\* <<t>> when there is exactly one, <<>> for None
ResolveColumnTable(column_name, tables) ==
    LET candidates == Flatten([i \in DOMAIN tables |->
            [k \in DOMAIN SelectSeq(tables[i].fields,
                                    LAMBDA fn : Upper(fn) = Upper(column_name)) |->
                tables[i].name]])
    IN IF Len(candidates) = 1 THEN <<candidates[1]>> ELSE <<>>

\* the table one column of a select expression resolves to: <<t>>, or <<>>
ResolvedTable(col, parsed, tables) ==
    LET refs == SourceRefs(parsed, tables)
        table_ref == Upper(col.table)
        resolved ==
            IF col.table # "" /\ table_ref \in DOMAIN refs THEN <<refs[table_ref]>>
            ELSE IF col.table # "" THEN <<table_ref>>
            ELSE IF Cardinality(DOMAIN refs) = 1 THEN <<FirstRefValue(parsed, tables)>>
            ELSE ResolveColumnTable(col.name, tables)
    IN IF resolved # <<>> /\ resolved[1] # "" THEN resolved ELSE <<>>

UpstreamCols(e, parsed, tables) ==
    Flatten([k \in DOMAIN e.cols |->
        LET r == ResolvedTable(e.cols[k], parsed, tables)
        IN IF r = <<>> THEN <<>> ELSE << <<r[1], e.cols[k].name>> >>])

ExprName(i) == <<"expr_0", "expr_1", "expr_2", "expr_3">>[i + 1]

OutputCol(e, i) ==
    IF e.kind = "alias" THEN e.alias
    ELSE IF e.kind = "column" THEN e.cols[1].name
    ELSE ExprName(i)

SqlResult(upstream, output, expr) ==
    [upstream_cols |-> upstream, output_col |-> output, expression |-> expr]

\* SELECT *: one full-passthrough result per known table and field
StarResults(tables) ==
    Flatten([i \in DOMAIN tables |->
        [k \in DOMAIN tables[i].fields |->
            SqlResult(<< <<tables[i].name, tables[i].fields[k]>> >>,
                      tables[i].fields[k], NoExpr)]])

\* the results one select expression adds (i counts from 0, as enumerate does)
ExprResults(e, i, parsed, tables) ==
    IF e.kind = "star" THEN StarResults(tables)
    ELSE IF UpstreamCols(e, parsed, tables) # <<>>
    THEN <<SqlResult(UpstreamCols(e, parsed, tables), OutputCol(e, i), e.text)>>
    ELSE <<>>

\* _parse_with_sqlglot: [raised, value]; a ParseError of parse_one is caught
\* inside and leaves the empty results, any other exception propagates
ParseWithSqlglot(q, tables) ==
    CASE q.parsed.kind = "error" -> [raised |-> TRUE, value |-> <<>>]
      [] q.parsed.kind \in {"parse_error", "not_select"} ->
            [raised |-> FALSE, value |-> <<>>]
      [] OTHER ->
            [raised |-> FALSE,
             value |-> Flatten([i \in DOMAIN q.parsed.expressions |->
                          ExprResults(q.parsed.expressions[i], i - 1, q.parsed, tables)])]

\* parse_sql: every exception of _parse_with_sqlglot is logged and becomes []
ParseSql(q, tables) ==
    IF ParseWithSqlglot(q, tables).raised THEN [raised |-> FALSE, value |-> <<>>]
    ELSE ParseWithSqlglot(q, tables)

-----------------------------------------------------------------------------
(* SQLLineageParser.detect_stored_procedure_call *)

\* The text is a sequence of tokens: words (\w+), " " for a run of white
\* space, and punctuation.
NonWordTokens == {" ", ".", "(", ")", "{", "}", ";", ",", ":1", ":2", "*", "?"}
IsWord(tok) == tok \notin NonWordTokens

\* The patterns carry no \b before the keyword and ignore case: a word matches
\* a keyword when it ends with it.
EndsWithKeyword(tok, kw) ==
    \/ tok = kw
    \/ <<tok, kw>> \in {<<"call", "CALL">>, <<"Call", "CALL">>, <<"RECALL", "CALL">>,
                        <<"execute", "EXECUTE">>, <<"begin", "BEGIN">>}

TokenAt(text, i) == IF i \in DOMAIN text THEN text[i] ELSE ""

\* \s*\( at position p
ParenAt(text, p) ==
    \/ TokenAt(text, p) = "("
    \/ TokenAt(text, p) = " " /\ TokenAt(text, p + 1) = "("

\* (?:(\w+)\.)?(\w+) at position k, followed by \s*\( when the pattern asks
\* for it: << <<schema, name>> >>, or <<>> when it does not match there
NameAt(text, k, needParen) ==
    IF /\ TokenAt(text, k) # "" /\ IsWord(TokenAt(text, k))
       /\ TokenAt(text, k + 1) = "."
       /\ TokenAt(text, k + 2) # "" /\ IsWord(TokenAt(text, k + 2))
       /\ (needParen => ParenAt(text, k + 3))
    THEN << <<text[k], text[k + 2]>> >>
    ELSE IF /\ TokenAt(text, k) # "" /\ IsWord(TokenAt(text, k))
            /\ (needParen => ParenAt(text, k + 1))
    THEN << <<"", text[k]>> >>
    ELSE <<>>

\* keyword\s+name at position i
KeywordCallAt(text, i, kw, needParen) ==
    IF EndsWithKeyword(text[i], kw) /\ TokenAt(text, i + 1) = " "
    THEN NameAt(text, i + 2, needParen)
    ELSE <<>>

\* {\s*call\s+name\s*\( at position i
OdbcCallAt(text, i) ==
    LET c == IF TokenAt(text, i + 1) = " " THEN i + 2 ELSE i + 1
    IN IF text[i] = "{" /\ TokenAt(text, c) # ""
          /\ (TokenAt(text, c) = "CALL" \/ <<TokenAt(text, c), "CALL">> \in
                  {<<"call", "CALL">>, <<"Call", "CALL">>})
          /\ TokenAt(text, c + 1) = " "
       THEN NameAt(text, c + 2, TRUE)
       ELSE <<>>

\* re.search: the leftmost match of one pattern
FirstMatch(text, At(_)) ==
    LET hits == {i \in DOMAIN text : At(i) # <<>>}
    IN IF hits = {} THEN <<>> ELSE At(CHOOSE i \in hits : \A j \in hits : i <= j)


\* the first pattern, in the order of the list, that matches anywhere:
\* << <<schema, proc_name>> >>, or <<>> for None
DetectStoredProcedureCall(text) ==
    LET p1 == FirstMatch(text, LAMBDA i : KeywordCallAt(text, i, "CALL", TRUE))
        p2 == FirstMatch(text, LAMBDA i : KeywordCallAt(text, i, "EXECUTE", FALSE))
        p3 == FirstMatch(text, LAMBDA i : KeywordCallAt(text, i, "BEGIN", TRUE))
        p4 == FirstMatch(text, LAMBDA i : OdbcCallAt(text, i))
    IN IF p1 # <<>> THEN p1
       ELSE IF p2 # <<>> THEN p2
       ELSE IF p3 # <<>> THEN p3
       ELSE p4

-----------------------------------------------------------------------------
(* ColumnLineageEdge and the LineageBuilder methods that create them *)

\* Dataset names are the lists of their "."-joined parts.
DatasetName(def) ==
    IF def.owner_name # None THEN <<def.owner_name, def.name>> ELSE <<def.name>>

ProcName(schema, proc_name) ==
    IF schema # "" THEN <<schema, proc_name>> ELSE <<proc_name>>

\* origin records which statement of the source created the edge: "call" and
\* "projection" (_parse_sql_lineage), "procedure" (_build_stored_proc_lineage),
\* "source" and "connector" (build_column_lineage_edges).  confidence_score
\* defaults to 1.0.
ColumnLineageEdge(origin, sds, scol, tds, tcol, type, expr, order, conf) ==
    [origin |-> origin, source_dataset |-> sds, source_column |-> scol,
     target_dataset |-> tds, target_column |-> tcol, transformation_type |-> type,
     transformation_expression |-> expr, confidence_score |-> conf,
     step_order |-> order]

DefaultConfidence == 100
ProjectionConfidence == 95

ProjectionEdgesOfAllOutputs(results, f, target_table, target_col, step, conf) ==
    Flatten([i \in DOMAIN results |->
        Flatten([k \in DOMAIN results[i].upstream_cols |->
            LET table == results[i].upstream_cols[k][1]
                col == results[i].upstream_cols[k][2]
            IN IF table \in DOMAIN f.sources
               THEN <<ColumnLineageEdge("projection", DatasetName(f.sources[table]),
                        col, <<target_table>>, target_col, SOURCE_QUALIFIER,
                        results[i].expression, step.step_order, conf)>>
               ELSE <<>>])])

\* the edges of the results whose output column is the target column, for
\* the upstream tables that are sources of the folder
ProjectionEdges(results, f, target_table, target_col, step, conf) ==
    Flatten([i \in DOMAIN results |->
        IF Upper(results[i].output_col) = Upper(target_col)
        THEN Flatten([k \in DOMAIN results[i].upstream_cols |->
                LET table == results[i].upstream_cols[k][1]
                    col == results[i].upstream_cols[k][2]
                IN IF table \in DOMAIN f.sources
                   THEN <<ColumnLineageEdge("projection", DatasetName(f.sources[table]),
                            col, <<target_table>>, target_col, SOURCE_QUALIFIER,
                            results[i].expression, step.step_order, conf)>>
                   ELSE <<>>])
        ELSE <<>>])

\* source_tables[source_name] = source_def.fields, for the sources of the folder
FolderSourceTables(f) ==
    [i \in DOMAIN f.source_order |->
        [name |-> f.source_order[i], fields |-> f.sources[f.source_order[i]].fields]]

CallEdge(call, target_table, target_col, step) ==
    ColumnLineageEdge("call", ProcName(call[1], call[2]), "*", <<target_table>>,
        target_col, STORED_PROCEDURE, <<"CALL", ProcName(call[1], call[2])>>,
        step.step_order, DefaultConfidence)

ParseSqlLineageUnguarded(q, f, target_table, target_col, step) ==
    IF DetectStoredProcedureCall(q.text) # <<>>
    THEN [raised |-> FALSE,
          value |-> <<CallEdge(DetectStoredProcedureCall(q.text)[1],
                               target_table, target_col, step)>>]
    ELSE [raised |-> ParseWithSqlglot(q, FolderSourceTables(f)).raised,
          value |-> ProjectionEdges(ParseWithSqlglot(q, FolderSourceTables(f)).value,
                        f, target_table, target_col, step, ProjectionConfidence)]

ParseSqlLineageDefaultConfidence(q, f, target_table, target_col, step) ==
    IF DetectStoredProcedureCall(q.text) # <<>>
    THEN [raised |-> FALSE,
          value |-> <<CallEdge(DetectStoredProcedureCall(q.text)[1],
                               target_table, target_col, step)>>]
    ELSE [raised |-> FALSE,
          value |-> ProjectionEdges(ParseSql(q, FolderSourceTables(f)).value,
                        f, target_table, target_col, step, DefaultConfidence)]

\* _parse_sql_lineage without its test for a procedure call
ParseSqlLineageWithoutCall(q, f, target_table, target_col, step) ==
    IF ParseSql(q, FolderSourceTables(f)).raised
    THEN [raised |-> FALSE, value |-> <<>>]
    ELSE [raised |-> FALSE,
          value |-> ProjectionEdges(ParseSql(q, FolderSourceTables(f)).value,
                        f, target_table, target_col, step, ProjectionConfidence)]

\* _parse_sql_lineage: [raised, value]; its own try/except turns an exception
\* of the parser into the edges collected so far, which are none
ParseSqlLineage(q, f, target_table, target_col, step) ==
    IF DetectStoredProcedureCall(q.text) # <<>>
    THEN [raised |-> FALSE,
          value |-> <<CallEdge(DetectStoredProcedureCall(q.text)[1],
                               target_table, target_col, step)>>]
    ELSE IF ParseSql(q, FolderSourceTables(f)).raised
    THEN [raised |-> FALSE, value |-> <<>>]
    ELSE [raised |-> FALSE,
          value |-> ProjectionEdges(ParseSql(q, FolderSourceTables(f)).value,
                        f, target_table, target_col, step, ProjectionConfidence)]

\* _build_stored_proc_lineage
BuildStoredProcLineage(hasTrans, trans, target_table, target_col, step) ==
    IF hasTrans /\ trans.stored_proc_name # None /\ trans.stored_proc_name # ""
    THEN LET schema == IF trans.stored_proc_schema = None THEN ""
                       ELSE trans.stored_proc_schema
         IN <<ColumnLineageEdge("procedure", ProcName(schema, trans.stored_proc_name),
                "*", <<target_table>>, target_col, STORED_PROCEDURE,
                <<"EXEC", ProcName(schema, trans.stored_proc_name)>>,
                step.step_order, DefaultConfidence)>>
    ELSE <<>>

\* _find_source_for_instance: breadth-first over the connectors, from the
\* queue's head; << <<dataset, field>> >> for the first source definition of
\* the folder that is reached, <<>> for None
RECURSIVE FindSourceFrom(_, _, _, _)
FindSourceFrom(queue, vis, m, f) ==
    IF queue = <<>> THEN <<>>
    ELSE LET current == Head(queue)
             key == VisitKey(current[1], current[2])
         IN IF key \in vis THEN FindSourceFrom(Tail(queue), vis, m, f)
            ELSE IF ~HasInstance(m, current[1])
            THEN FindSourceFrom(Tail(queue), vis \cup {key}, m, f)
            ELSE LET instance == InstanceGet(m, current[1])
                     ups == SelectSeq(m.connectors, LAMBDA c :
                                c.to_instance = current[1] /\ c.to_field = current[2])
                 IN IF /\ instance.transformation_type = SOURCE_DEFINITION
                       /\ instance.transformation_name \in DOMAIN f.sources
                    THEN << <<DatasetName(f.sources[instance.transformation_name]),
                              current[2]>> >>
                    ELSE FindSourceFrom(
                            Tail(queue) \o [k \in DOMAIN ups |->
                                <<ups[k].from_instance, ups[k].from_field>>],
                            vis \cup {key}, m, f)

FindSourceForInstance(m, f, instance_name, field_name) ==
    FindSourceFrom(<< <<instance_name, field_name>> >>, {}, m, f)

-----------------------------------------------------------------------------
(* LineageBuilder.build_column_lineage_edges *)

\* the edges one step of a chain adds: [raised, value]
StepEdges(m, f, target_table, target_col, step) ==
    LET instance == InstanceGet(m, step.instance_name)
        hasTrans == HasTransformation(m, f, instance)
        trans == GetTransformation(m, f, instance)
        target_def == f.targets[target_table]
        inputs == step.input_fields
    IN IF /\ instance.transformation_type = SOURCE_QUALIFIER
          /\ hasTrans /\ trans.sql_query.text # <<>>
       THEN ParseSqlLineage(trans.sql_query, f, target_table, target_col, step)
       ELSE IF instance.transformation_type = STORED_PROCEDURE
       THEN [raised |-> FALSE,
             value |-> BuildStoredProcLineage(hasTrans, trans, target_table,
                                              target_col, step)]
       ELSE IF instance.transformation_type = SOURCE_DEFINITION
       THEN [raised |-> FALSE,
             value |-> IF instance.transformation_name \in DOMAIN f.sources
                       THEN [k \in DOMAIN inputs |->
                                ColumnLineageEdge("source",
                                    DatasetName(f.sources[instance.transformation_name]),
                                    inputs[k][2], DatasetName(target_def), target_col,
                                    step.transformation_type, step.expression,
                                    step.step_order, DefaultConfidence)]
                       ELSE <<>>]
       ELSE [raised |-> FALSE,
             value |-> Flatten([k \in DOMAIN inputs |->
                          LET src == FindSourceForInstance(m, f, inputs[k][1], inputs[k][2])
                          IN IF src = <<>> THEN <<>>
                             ELSE <<ColumnLineageEdge("connector", src[1][1], src[1][2],
                                        DatasetName(target_def), target_col,
                                        step.transformation_type, step.expression,
                                        step.step_order, DefaultConfidence)>>])]

\* the edges of one chain; key = <<target_table, target_col>> is what
\* target_field_key.split(".", 1) gives back
ChainEdges(m, f, entry) ==
    IF entry.key[1] \notin DOMAIN f.targets
    THEN <<>>
    ELSE [k \in DOMAIN entry.chain |->
            StepEdges(m, f, entry.key[1], entry.key[2], entry.chain[k])]

AllStepEdges(m, f, chains) ==
    Flatten([i \in DOMAIN chains |-> ChainEdges(m, f, chains[i])])

-----------------------------------------------------------------------------
(* DataHubLineageEmitter.emit_dataset_lineage and _build_job_io *)

RECURSIVE DistinctInOrder(_)
DistinctInOrder(s) ==
    IF s = <<>> THEN <<>>
    ELSE LET front == DistinctInOrder(SubSeq(s, 1, Len(s) - 1))
         IN IF s[Len(s)] \in Range(front) THEN front ELSE Append(front, s[Len(s)])

MaxConfidence(es) ==
    CHOOSE c \in {es[i].confidence_score : i \in DOMAIN es} :
        \A i \in DOMAIN es : c >= es[i].confidence_score

\* min(e.confidence_score for e in col_edges)
MinConfidence(es) ==
    CHOOSE c \in {es[i].confidence_score : i \in DOMAIN es} :
        \A i \in DOMAIN es : c <= es[i].confidence_score

\* sorted(col_edges, key=step_order, reverse=True): stable, larger first
RECURSIVE SortByStepOrderDesc(_)
SortByStepOrderDesc(es) ==
    IF es = <<>> THEN <<>>
    ELSE LET top == CHOOSE i \in DOMAIN es :
                        /\ \A j \in DOMAIN es : es[j].step_order <= es[i].step_order
                        /\ \A j \in 1..(i - 1) : es[j].step_order < es[i].step_order
         IN <<es[top]>> \o
            SortByStepOrderDesc(SubSeq(es, 1, top - 1) \o SubSeq(es, top + 1, Len(es)))

\* the schema field urns of the edges that name a column, each once
UpstreamFieldUrns(es) ==
    DistinctInOrder(
        LET named == SelectSeq(es, LAMBDA e : e.source_column # "*")
        IN [k \in DOMAIN named |-> <<named[k].source_dataset, named[k].source_column>>])

FineGrainedLineage(ups, down, parts, conf) ==
    [upstreams |-> ups, downstreams |-> <<down>>, transformOperation |-> parts,
     confidenceScore |-> conf]

\* the FineGrainedLineage of one target column of one target dataset
ColumnLineage(target, col, col_edges) ==
    LET sorted_edges == SortByStepOrderDesc(col_edges)
        with_expr == SelectSeq(sorted_edges, LAMBDA e : e.transformation_expression # <<>>)
    IN FineGrainedLineage(UpstreamFieldUrns(col_edges), <<target, col>>,
          [k \in DOMAIN with_expr |->
              <<with_expr[k].transformation_type, with_expr[k].transformation_expression>>],
          MinConfidence(col_edges))

\* the proposal for one target dataset: [] when it has no upstream
DatasetLineage(target, es) ==
    LET cols == DistinctInOrder([k \in DOMAIN es |-> es[k].target_column])
        fgl == [k \in DOMAIN cols |->
                  ColumnLineage(target, cols[k],
                      SelectSeq(es, LAMBDA e : e.target_column = cols[k]))]
        fine_grained == SelectSeq(fgl, LAMBDA g : g.upstreams # <<>>)
        upstream_datasets == {es[k].source_dataset : k \in DOMAIN es}
    IN IF upstream_datasets # {}
       THEN <<[entityUrn |-> target, upstreams |-> upstream_datasets,
               fineGrainedLineages |-> fine_grained]>>
       ELSE <<>>

\* _build_job_io: the edges grouped by target_key = f"{dataset}.{column}",
\* which target_key.rsplit(".", 1) takes apart again
JobLineage(key, es) ==
    LET with_expr == SelectSeq(es, LAMBDA e : e.transformation_expression # <<>>)
    IN FineGrainedLineage(UpstreamFieldUrns(es), key,
          [k \in DOMAIN with_expr |-> with_expr[k].transformation_expression],
          MinConfidence(es))

BuildJobIoOf(lineage_edges) ==
    LET keys == DistinctInOrder([k \in DOMAIN lineage_edges |->
                    <<lineage_edges[k].target_dataset, lineage_edges[k].target_column>>])
        fgl == [k \in DOMAIN keys |->
                  JobLineage(keys[k],
                      SelectSeq(lineage_edges, LAMBDA e :
                          <<e.target_dataset, e.target_column>> = keys[k]))]
    IN SelectSeq(fgl, LAMBDA g : g.upstreams # <<>>)

EmitDatasetLineageOf(lineage_edges) ==
    LET targets == DistinctInOrder([k \in DOMAIN lineage_edges |->
                                       lineage_edges[k].target_dataset])
    IN Flatten([t \in DOMAIN targets |->
          DatasetLineage(targets[t],
              SelectSeq(lineage_edges, LAMBDA e : e.target_dataset = targets[t]))])

-----------------------------------------------------------------------------
(* LineageBuilder: build_column_lineage_edges, step by step *)

\* build_mapping_lineage up to its loops: the graph and the target fields
BuildMappingLineage ==
    /\ pc = "start"
    /\ instance_graph' = BuildInstanceGraph(mapping)
    /\ todo' = TargetFields(mapping, folder)
    /\ lineage_chains' = <<>>
    /\ pc' = "lineage"
    /\ UNCHANGED <<mapping, folder, calls, visited, steps, processed, edges,
                   job_io, mcps>>
    /\ UNCHANGED <<gVars, rVars, sVars, qVars, cVars, hVars, eVars, jVars, mVars, wVars, xVars>>

\* the top-level call of _trace_field_lineage for the next target field:
\* visited is None, step_order is 0
TraceFieldLineage ==
    /\ pc = "lineage" /\ todo # <<>>
    /\ visited' = {}
    /\ steps' = <<>>
    /\ processed' = 0
    /\ calls' = <<TraceCallOf(Head(todo).inst, Head(todo).field, 0)>>
    /\ pc' = "tracing"
    /\ UNCHANGED <<mapping, folder, instance_graph, todo, lineage_chains, edges,
                   job_io, mcps>>
    /\ UNCHANGED <<gVars, rVars, sVars, qVars, cVars, hVars, eVars, jVars, mVars, wVars, xVars>>

\* the body of one (recursive) call: the calls it makes for its upstream
\* fields run before the calls its callers still have to make, and its step
\* precedes theirs in the returned list
TraceVisit ==
    /\ pc = "tracing" /\ calls # <<>>
    /\ LET call == Head(calls)
           key == VisitKey(call.inst, call.field)
           upstream_fields == UpstreamFields(instance_graph, call.inst, call.field)
       IN IF AlreadyVisited(key, visited)
          THEN /\ calls' = Tail(calls)
               /\ UNCHANGED <<visited, steps, processed>>
          ELSE /\ visited' = visited \cup {key}
               /\ processed' = processed + 1
               /\ IF ~HasInstance(mapping, call.inst)
                  THEN /\ calls' = Tail(calls)
                       /\ UNCHANGED steps
                  ELSE /\ steps' = Append(steps,
                              TransformationStep(call.step_order, call.inst,
                                  InstanceGet(mapping, call.inst).transformation_type,
                                  upstream_fields, call.field,
                                  StepExpression(mapping, folder,
                                      InstanceGet(mapping, call.inst), call.field)))
                       /\ calls' = [k \in DOMAIN upstream_fields |->
                                      TraceCallOf(upstream_fields[k][1],
                                                  upstream_fields[k][2],
                                                  call.step_order + 1)]
                                   \o Tail(calls)
    /\ UNCHANGED <<mapping, folder, pc, instance_graph, todo, lineage_chains, edges,
                   job_io, mcps>>
    /\ UNCHANGED <<gVars, rVars, sVars, qVars, cVars, hVars, eVars, jVars, mVars, wVars, xVars>>

\* the top-level call returns: if chain: lineage_chains[field_key] = chain
TraceReturn ==
    /\ pc = "tracing" /\ calls = <<>>
    /\ lineage_chains' =
          IF steps # <<>>
          THEN ChainPut(lineage_chains, <<Head(todo).target, Head(todo).field>>, steps)
          ELSE lineage_chains
    /\ todo' = Tail(todo)
    /\ pc' = "lineage"
    /\ UNCHANGED <<mapping, folder, instance_graph, calls, visited, steps, processed,
                   edges, job_io, mcps>>
    /\ UNCHANGED <<gVars, rVars, sVars, qVars, cVars, hVars, eVars, jVars, mVars, wVars, xVars>>

\* the loops of build_column_lineage_edges over the chains; an exception no
\* callee caught would leave the call without a result
BuildColumnLineageEdges ==
    /\ pc = "lineage" /\ todo = <<>>
    /\ LET r == AllStepEdges(mapping, folder, lineage_chains)
       IN IF \E k \in DOMAIN r : r[k].raised
          THEN pc' = "failed" /\ UNCHANGED edges
          ELSE /\ pc' = "edges"
               /\ edges' = Flatten([k \in DOMAIN r |-> r[k].value])
    /\ UNCHANGED <<mapping, folder, instance_graph, todo, calls, visited, steps,
                   processed, lineage_chains, job_io, mcps>>
    /\ UNCHANGED <<gVars, rVars, sVars, qVars, cVars, hVars, eVars, jVars, mVars, wVars, xVars>>

\* emit_session_as_datajob: _build_job_io(folder, lineage_edges, proc_refs)
BuildJobIo ==
    /\ pc = "edges"
    /\ job_io' = BuildJobIoOf(edges)
    /\ pc' = "job"
    /\ UNCHANGED <<mapping, folder, instance_graph, todo, calls, visited, steps,
                   processed, lineage_chains, edges, mcps>>
    /\ UNCHANGED <<gVars, rVars, sVars, qVars, cVars, hVars, eVars, jVars, mVars, wVars, xVars>>

\* emit_dataset_lineage(folder, all lineage edges)
EmitDatasetLineage ==
    /\ pc = "job"
    /\ mcps' = mcps \o EmitDatasetLineageOf(edges)
    /\ pc' = "done"
    /\ UNCHANGED <<mapping, folder, instance_graph, todo, calls, visited, steps,
                   processed, lineage_chains, edges, job_io>>
    /\ UNCHANGED <<gVars, rVars, sVars, qVars, cVars, hVars, eVars, jVars, mVars, wVars, xVars>>

LineageNext ==
    \/ BuildMappingLineage
    \/ TraceFieldLineage
    \/ TraceVisit
    \/ TraceReturn
    \/ BuildColumnLineageEdges
    \/ BuildJobIo
    \/ EmitDatasetLineage

-----------------------------------------------------------------------------
(* Initial states *)

\* the components a specification does not exercise stay idle
IdleLineage ==
    /\ mapping = [instances |-> <<>>, connectors |-> <<>>, transformations |-> EmptyDict]
    /\ folder = [sources |-> EmptyDict, source_order |-> <<>>, targets |-> EmptyDict,
                 transformations |-> EmptyDict]
    /\ pc = "idle" /\ instance_graph = EmptyDict /\ todo = <<>> /\ calls = <<>>
    /\ visited = {} /\ steps = <<>> /\ processed = 0 /\ lineage_chains = <<>>
    /\ edges = <<>> /\ job_io = <<>> /\ mcps = <<>>

IdleGraph ==
    gpc = "idle" /\ gi = 0 /\ gconn = <<>> /\ ggraph = EmptyDict /\ gindex = EmptyDict

IdleResolve ==
    /\ rpc = "idle" /\ max_hops = 0 /\ reverse_edges = EmptyDict /\ seen = {}
    /\ rmapping = [sources |-> {}, ports |-> EmptyDict, connectors |-> <<>>]
    /\ frontier = <<>> /\ hops = 0 /\ rresult = {} /\ rtarget = <<"", "">>

IdleSequencer ==
    /\ spc = "idle" /\ incoming = EmptyDict /\ outgoing = EmptyDict
    /\ no_incoming = <<>> /\ result = <<>>

IdleSql ==
    qpc = "idle" /\ sql = NoSql /\ source_tables = <<>> /\ qresults = <<>> /\ qtarget = ""

IdleExtractor ==
    xpc = "idle" /\ xml_files = <<>> /\ folders_left = <<>> /\ xfolder = <<>> /\ xsession = 0 /\ all_lineage_edges = <<>> /\ emitter_mcps = <<>>

IdleWorkflow ==
    wpc = "idle" /\ task_instances = <<>> /\ workflow_links = <<>> /\ task_order = <<>> /\ next_tasks = <<>> /\ wqueue = <<>> /\ wvisited = {} /\ ordered_sessions = <<>> /\ workflow_sessions = <<>>

IdleFormula ==
    mcalls = 0 /\ mcube = <<>> /\ member_dimension_cache = <<>> /\ formula_lineage = <<>>

IdleJil ==
    jpc = "idle" /\ jil_text = <<>> /\ jline = 0 /\ jcurrent = <<>> /\ export = [jobs |-> <<>>, boxes |-> <<>>]

IdleReferences ==
    epc = "idle" /\ eexpr = <<>> /\ erefs = {}

IdleHierarchy ==
    /\ hpc = "idle" /\ dim_data = <<>> /\ hdim = 0 /\ lineage_mappings = <<>>
    /\ cube = [application |-> "", name |-> "", dimensions |-> <<>>]

IdleCalc ==
    cpc = "idle" /\ script = <<>> /\ line_num = 0 /\ fix_stack = <<>> /\ transforms = <<>>

\* the state of a LineageBuilder before build_column_lineage_edges is called
LineageStart ==
    /\ pc = "start" /\ instance_graph = EmptyDict /\ todo = <<>> /\ calls = <<>>
    /\ visited = {} /\ steps = <<>> /\ processed = 0 /\ lineage_chains = <<>>
    /\ edges = <<>> /\ job_io = <<>> /\ mcps = <<>>

InstanceInfo(name, tname, type) ==
    [name |-> name, transformation_name |-> tname, transformation_type |-> type]
FieldInfo(expr) == [expression |-> expr]
TransformationInfo(type, fields, q, proc, schema) ==
    [type |-> type, fields |-> fields, sql_query |-> q, stored_proc_name |-> proc,
     stored_proc_schema |-> schema]
TableDefinition(name, owner, fields) ==
    [name |-> name, owner_name |-> owner, fields |-> fields]

\* ---- mappings of arbitrary shape: a target T, an expression X whose ports
\*      A and OUT carry the expression A + 1, a source S, and connectors that
\*      may also start at an instance U the mapping lacks
MaxConn == 3

TraceConnectors ==
    {Connector(f, "A", "T", "A") : f \in {"X", "S", "U", "T"}} \cup
    {Connector(f, "A", "T", "B") : f \in {"X", "S"}} \cup
    {Connector(f, "A", "X", "A") : f \in {"X", "S", "T", "U"}} \cup
    {Connector(f, "A", "S", "A") : f \in {"X", "S", "T"}} \cup
    {Connector("X", "OUT", "T", "A")}

TraceMapping(conns) ==
    [instances |-> <<InstanceInfo("T", "TGT", TARGET_DEFINITION),
                     InstanceInfo("X", "EXP_X", EXPRESSION),
                     InstanceInfo("S", "SRC", SOURCE_DEFINITION)>>,
     connectors |-> conns,
     transformations |->
        [n \in {"EXP_X"} |->
            TransformationInfo(EXPRESSION,
                [fn \in {"A", "OUT"} |-> FieldInfo(<<"A", "+", "1">>)],
                NoSql, None, None)]]

TraceFolder ==
    [sources |-> [n \in {"SRC"} |-> TableDefinition("SRC", None, <<"A">>)],
     source_order |-> <<"SRC">>,
     targets |-> [n \in {"TGT"} |-> TableDefinition("TGT", None, <<"A", "B">>)],
     transformations |-> EmptyDict]

Init ==
    /\ mapping \in {TraceMapping(c) : c \in SeqsUpTo(TraceConnectors, MaxConn)}
    /\ folder = TraceFolder
    /\ LineageStart
    /\ IdleGraph /\ IdleResolve /\ IdleSequencer /\ IdleSql
    /\ IdleCalc
    /\ IdleHierarchy
    /\ IdleReferences
    /\ IdleJil
    /\ IdleFormula
    /\ IdleWorkflow
    /\ IdleExtractor

Next == LineageNext

Spec == Init /\ [][Next]_vars

\* ---- mappings with a source qualifier Q and a stored procedure P between
\*      the source S and the target T; the query override of Q varies
EdgeMaxConn == 3

EdgeConnectors ==
    {Connector("Q", "A", "T", "A"), Connector("P", "A", "T", "A"),
     Connector("S", "A", "T", "A"), Connector("Q", "B", "T", "B"),
     Connector("S", "A", "Q", "A"), Connector("S", "B", "Q", "B"),
     Connector("S", "A", "P", "A")}

QTable(name, alias) == [name |-> name, alias |-> alias]
SelectExpr(kind, alias, cols, text) ==
    [kind |-> kind, alias |-> alias, cols |-> cols, text |-> text]
Query(text, kind, tables, expressions) ==
    [text |-> text,
     parsed |-> [kind |-> kind, tables |-> tables, expressions |-> expressions]]

\* SELECT S1.A, COUNT(S1.B) AS B FROM SRC S1
SelectQuery ==
    Query(<<"SELECT", " ", "S1", ".", "A", ",", " ", "COUNT", "(", "S1", ".", "B", ")",
            " ", "AS", " ", "B", " ", "FROM", " ", "SRC", " ", "S1">>,
          "select", <<QTable("SRC", "S1")>>,
          <<SelectExpr("column", "", <<Column("A", "S1")>>, <<"S1", ".", "A">>),
            SelectExpr("alias", "B", <<Column("B", "S1")>>,
                       <<"COUNT", "(", "S1", ".", "B", ")", " ", "AS", " ", "B">>)>>)

\* text sqlglot cannot parse: a ParseError, or another exception
MalformedQuery == Query(<<"SELECT", " ", "FROM", " ", "(">>, "parse_error", <<>>, <<>>)
BrokenQuery    == Query(<<"SELECT", " ", "?", "?">>, "error", <<>>, <<>>)

\* BEGIN PKG.GET_KEY(:1,:2); END;
CallQuery ==
    Query(<<"BEGIN", " ", "PKG", ".", "GET_KEY", "(", ":1", ",", ":2", ")", ";", " ",
            "END", ";">>, "parse_error", <<>>, <<>>)

EdgeQueries == {NoSql, SelectQuery, MalformedQuery, BrokenQuery, CallQuery}

EdgeMapping(conns, q) ==
    [instances |-> <<InstanceInfo("T", "TGT", TARGET_DEFINITION),
                     InstanceInfo("Q", "SQ_T", SOURCE_QUALIFIER),
                     InstanceInfo("P", "SP_T", STORED_PROCEDURE),
                     InstanceInfo("S", "SRC", SOURCE_DEFINITION)>>,
     connectors |-> conns,
     transformations |->
        [n \in {"SQ_T", "SP_T"} |->
            IF n = "SQ_T"
            THEN TransformationInfo(SOURCE_QUALIFIER,
                    [fn \in {"A", "B"} |-> FieldInfo(NoExpr)], q, None, None)
            ELSE TransformationInfo(STORED_PROCEDURE,
                    [fn \in {"A"} |-> FieldInfo(NoExpr)], NoSql, "GET_KEY", "PKG")]]

EdgeFolder ==
    [sources |-> [n \in {"SRC"} |-> TableDefinition("SRC", None, <<"A", "B">>)],
     source_order |-> <<"SRC">>,
     targets |-> [n \in {"TGT"} |-> TableDefinition("TGT", None, <<"A", "B">>)],
     transformations |-> EmptyDict]

InitEdges ==
    /\ mapping \in {EdgeMapping(c, q) : c \in SeqsUpTo(EdgeConnectors, EdgeMaxConn),
                                       q \in EdgeQueries}
    /\ folder = EdgeFolder
    /\ LineageStart
    /\ IdleGraph /\ IdleResolve /\ IdleSequencer /\ IdleSql
    /\ IdleCalc
    /\ IdleHierarchy
    /\ IdleReferences
    /\ IdleJil
    /\ IdleFormula
    /\ IdleWorkflow
    /\ IdleExtractor

SpecEdges == InitEdges /\ [][LineageNext]_vars

-----------------------------------------------------------------------------
(* Properties of the upstream trace *)

\* the nodes and the field names of the graph a trace runs on
TraceNodes ==
    InstanceNames(mapping) \cup
    {mapping.connectors[i].from_instance : i \in DOMAIN mapping.connectors} \cup
    {mapping.connectors[i].to_instance : i \in DOMAIN mapping.connectors}

TraceFieldNames ==
    {mapping.connectors[i].from_field : i \in DOMAIN mapping.connectors} \cup
    {mapping.connectors[i].to_field : i \in DOMAIN mapping.connectors} \cup
    UNION {Range(folder.targets[t].fields) : t \in DOMAIN folder.targets}

TraceBound == Cardinality(TraceNodes) * Cardinality(TraceFieldNames)

\* a measure every step of a trace lowers: the pairs not yet visited, then
\* the calls still pending
TraceRank ==
    (TraceBound - Cardinality(visited)) * (Len(mapping.connectors) + 1) + Len(calls)

\* C1: on any graph, cyclic ones included, a trace processes at most
\* |nodes| x |fields| pairs and terminates: every step of it lowers a
\* measure that stays non-negative.
C1_TraceTerminates ==
    /\ [](processed <= TraceBound /\ TraceRank >= 0)
    /\ [][(pc = "tracing" /\ pc' = "tracing") => TraceRank' < TraceRank]_vars

\* the trace comes back to its own target field: the graph has a cycle
C1_Witness ==
    /\ pc = "tracing" /\ calls # <<>>
    /\ Head(calls).inst = "T" /\ Head(calls).field = "A"
    /\ <<"T", "A">> \in visited
    /\ Len(steps) >= 2

-----------------------------------------------------------------------------
(* Properties of the column lineage edges *)

TheQuery == mapping.transformations["SQ_T"].sql_query

\* the query override of Q is text the parser is run on and fails on
QueryFails ==
    /\ "SQ_T" \in DOMAIN mapping.transformations
    /\ TheQuery.text # <<>>
    /\ DetectStoredProcedureCall(TheQuery.text) = <<>>
    /\ TheQuery.parsed.kind \in {"parse_error", "error"}

\* C6: an edge made from a query projection has confidence 0.95, every
\* other edge (connectors, source definitions, procedure calls) has 1.0.
C6_EdgeConfidence ==
    \A i \in DOMAIN edges :
        edges[i].confidence_score = IF edges[i].origin = "projection" THEN 95 ELSE 100

C6_Witness ==
    /\ pc = "done"
    /\ \E i \in DOMAIN edges : edges[i].origin = "projection"
    /\ \E i \in DOMAIN edges : edges[i].origin = "connector"
    /\ \E i \in DOMAIN edges : edges[i].origin = "procedure"

\* the edges that are combined into the record of one target field
GroupOf(target, col) ==
    {e \in Range(edges) : e.target_dataset = target /\ e.target_column = col}

IsMinimumOf(c, group) ==
    /\ \E e \in group : e.confidence_score = c
    /\ \A e \in group : c <= e.confidence_score

\* C7: the confidence of a fine-grained lineage record is the minimum of
\* the confidences of the edges of its target field.
C7_CombinedConfidence ==
    /\ \A i \in DOMAIN mcps : \A k \in DOMAIN mcps[i].fineGrainedLineages :
          LET g == mcps[i].fineGrainedLineages[k]
          IN IsMinimumOf(g.confidenceScore,
                         GroupOf(g.downstreams[1][1], g.downstreams[1][2]))
    /\ \A k \in DOMAIN job_io :
          IsMinimumOf(job_io[k].confidenceScore,
                      GroupOf(job_io[k].downstreams[1][1], job_io[k].downstreams[1][2]))

\* a record whose group mixes both confidences
C7_Witness ==
    /\ pc = "done"
    /\ \E i \in DOMAIN mcps : \E k \in DOMAIN mcps[i].fineGrainedLineages :
          LET g == mcps[i].fineGrainedLineages[k]
              group == GroupOf(g.downstreams[1][1], g.downstreams[1][2])
          IN /\ g.confidenceScore = 95
             /\ \E e \in group : e.confidence_score = 100
    /\ job_io # <<>>

\* the edges of the steps of the chains that are not steps of Q
EdgesOfOtherSteps ==
    LET r == AllStepEdges(mapping, folder,
                [i \in DOMAIN lineage_chains |->
                    [key |-> lineage_chains[i].key,
                     chain |-> SelectSeq(lineage_chains[i].chain,
                                  LAMBDA st : st.instance_name # "Q")]])
    IN Flatten([k \in DOMAIN r |-> r[k].value])

\* C9: when the parser fails on the query of a node, the call still
\* returns; the node adds no edge and the edges of all other steps, of every
\* target field, are returned.
C9_SoftFailure ==
    /\ pc # "failed"
    /\ (QueryFails /\ pc \in {"edges", "job", "done"}) =>
          /\ \A i \in DOMAIN edges : edges[i].transformation_type # SOURCE_QUALIFIER
          /\ edges = EdgesOfOtherSteps

\* the failing node is on the chain of a target field and other steps of the
\* same call gave edges
C9_Witness ==
    /\ pc = "done" /\ QueryFails
    /\ TheQuery.parsed.kind = "error"
    /\ \E i \in DOMAIN lineage_chains : \E k \in DOMAIN lineage_chains[i].chain :
          lineage_chains[i].chain[k].instance_name = "Q"
    /\ \E i \in DOMAIN edges : edges[i].target_column = "A"
    /\ \E i \in DOMAIN edges : edges[i].target_column = "B"

-----------------------------------------------------------------------------
(* DataHubLineageEmitter._get_transformation_order *)

\* the connectors the adjacency sets are built from: both ends are instances
SeqConnectors(m) ==
    SelectSeq(m.connectors,
              LAMBDA c : HasInstance(m, c.from_instance) /\ HasInstance(m, c.to_instance))

\* incoming[name] / outgoing[name] after the loop over mapping.connectors
IncomingOf(m) ==
    [n \in InstanceNames(m) |->
        {c.from_instance : c \in {x \in Range(SeqConnectors(m)) : x.to_instance = n}}]
OutgoingOf(m) ==
    [n \in InstanceNames(m) |->
        {c.to_instance : c \in {x \in Range(SeqConnectors(m)) : x.from_instance = n}}]

\* "not deps" of a set
ReadyAlways(deps) == TRUE
Ready(deps) == deps = {}

\* [name for name, deps in incoming.items() if not deps]
NamesInOrder(m) == [i \in DOMAIN m.instances |-> m.instances[i].name]
NoIncoming(m, inc) == SelectSeq(NamesInOrder(m), LAMBDA n : Ready(inc[n]))

\* the orders in which a for loop may walk a set
IterationOrders(S) == {s \in [1..Cardinality(S) -> S] : Range(s) = S}

\* a loop over the successors that releases none of them
ReleaseNothing(inc, queue, node, order) == [incoming |-> inc, no_incoming |-> queue]

\* for next_node in order: incoming[next_node].discard(node);
\*                         if not incoming[next_node]: no_incoming.append(next_node)
RECURSIVE Release(_, _, _, _)
Release(inc, queue, node, order) ==
    IF order = <<>> THEN [incoming |-> inc, no_incoming |-> queue]
    ELSE LET next_node == Head(order)
             inc2 == [inc EXCEPT ![next_node] = @ \ {node}]
         IN Release(inc2,
                    IF Ready(inc2[next_node]) THEN Append(queue, next_node) ELSE queue,
                    node, Tail(order))

\* for name in mapping.instances: if name not in result: result.append(name)
RemainingReversed(m, res) ==
    LET r == SelectSeq(NamesInOrder(m), LAMBDA n : n \notin Range(res))
    IN [i \in DOMAIN r |-> r[Len(r) + 1 - i]]
Remaining(m, res) == SelectSeq(NamesInOrder(m), LAMBDA n : n \notin Range(res))

\* the call, up to the while loop
GetTransformationOrder ==
    /\ spc = "start"
    /\ incoming' = IncomingOf(mapping)
    /\ outgoing' = OutgoingOf(mapping)
    /\ result' = <<>>
    /\ no_incoming' = NoIncoming(mapping, IncomingOf(mapping))
    /\ spc' = "loop"
    /\ UNCHANGED <<lbVars, gVars, rVars, qVars, cVars, hVars, eVars, jVars, mVars, wVars, xVars>>

\* one iteration of "while no_incoming"
SeqPop ==
    /\ spc = "loop"
    /\ no_incoming # <<>>
    /\ LET node == Head(no_incoming)
       IN \E order \in IterationOrders(Get(outgoing, node, {})) :
            LET r == Release(incoming, Tail(no_incoming), node, order)
            IN /\ incoming' = r.incoming
               /\ no_incoming' = r.no_incoming
               /\ result' = Append(result, node)
    /\ UNCHANGED <<spc, outgoing, lbVars, gVars, rVars, qVars, cVars, hVars, eVars, jVars, mVars, wVars, xVars>>

\* the loop has ended: the remaining instances are appended and the list returned
SeqFinish ==
    /\ spc = "loop"
    /\ no_incoming = <<>>
    /\ result' = result \o Remaining(mapping, result)
    /\ spc' = "done"
    /\ UNCHANGED <<incoming, outgoing, no_incoming, lbVars, gVars, rVars, qVars, cVars, hVars, eVars, jVars, mVars, wVars, xVars>>

SeqNext == GetTransformationOrder \/ SeqPop \/ SeqFinish

\* ---- mappings of up to three instances, in any insertion order, with up to
\*      SeqMaxConn connectors between any two names (self-loops included;
\*      a connector may name an instance the mapping lacks)
SeqMaxConn == 3

SeqNames == {"A", "B", "C"}

SeqInstanceOrders ==
    {s \in SeqsUpTo(SeqNames, Cardinality(SeqNames)) :
        \A i, j \in DOMAIN s : i # j => s[i] # s[j]}

SeqConnectorChoices == {Connector(a, "F", b, "F") : a \in SeqNames, b \in SeqNames}

SeqMapping(names, conns) ==
    [instances |-> [i \in DOMAIN names |-> InstanceInfo(names[i], names[i], EXPRESSION)],
     connectors |-> conns,
     transformations |-> EmptyDict]

BuilderIdle ==
    /\ pc = "idle" /\ instance_graph = EmptyDict /\ todo = <<>> /\ calls = <<>>
    /\ visited = {} /\ steps = <<>> /\ processed = 0 /\ lineage_chains = <<>>
    /\ edges = <<>> /\ job_io = <<>> /\ mcps = <<>>

InitSeq ==
    /\ mapping \in {SeqMapping(n, c) : n \in SeqInstanceOrders,
                                      c \in SeqsUpTo(SeqConnectorChoices, SeqMaxConn)}
    /\ folder = [sources |-> EmptyDict, source_order |-> <<>>, targets |-> EmptyDict,
                 transformations |-> EmptyDict]
    /\ BuilderIdle
    /\ spc = "start" /\ incoming = EmptyDict /\ outgoing = EmptyDict
    /\ no_incoming = <<>> /\ result = <<>>
    /\ IdleGraph /\ IdleResolve /\ IdleSql
    /\ IdleCalc
    /\ IdleHierarchy
    /\ IdleReferences
    /\ IdleJil
    /\ IdleFormula
    /\ IdleWorkflow
    /\ IdleExtractor

SpecSeq == InitSeq /\ [][SeqNext]_vars

\* ---- the dependency relation of the mapping, independently of the sort
SeqEdges == {<<c.from_instance, c.to_instance>> : c \in Range(SeqConnectors(mapping))}

Compose(R, S) == {<<p[1][1], p[2][2]>> : p \in {q \in R \X S : q[1][2] = q[2][1]}}

RECURSIVE PathsUpTo(_, _)
PathsUpTo(R, n) ==
    IF n <= 1 THEN R ELSE LET P == PathsUpTo(R, n - 1) IN P \cup Compose(P, R)

\* <<a, b>> \in SeqReaches: a path of one or more connectors leads from a to b
SeqReaches == PathsUpTo(SeqEdges, Cardinality(InstanceNames(mapping)))
SeqCyclic == \E n \in InstanceNames(mapping) : <<n, n>> \in SeqReaches

\* the instances on a cycle or downstream of one: no order can resolve them
SeqUnresolved ==
    {n \in InstanceNames(mapping) :
        \E c \in InstanceNames(mapping) :
            <<c, c>> \in SeqReaches /\ (c = n \/ <<c, n>> \in SeqReaches)}

PositionIn(res, n) == CHOOSE i \in DOMAIN res : res[i] = n
NoDuplicates(res) == \A i, j \in DOMAIN res : i # j => res[i] # res[j]

\* C2: for an acyclic instance graph the list returned holds every instance
\* exactly once, and for every connector a -> b the instance a comes before b.
C2_AcyclicOrder ==
    (spc = "done" /\ ~SeqCyclic) =>
        /\ Len(result) = Cardinality(InstanceNames(mapping))
        /\ Range(result) = InstanceNames(mapping)
        /\ \A e \in SeqEdges : PositionIn(result, e[1]) < PositionIn(result, e[2])

C2_Witness ==
    /\ spc = "done" /\ ~SeqCyclic
    /\ Cardinality(SeqEdges) >= 2 /\ Len(result) = 3
    /\ NamesInOrder(mapping) # result

\* C3: for an instance graph with a cycle (a self-loop included) the sort ends
\* (every iteration of the loop lengthens the list, which never repeats an
\* instance), the list returned holds every instance exactly once, and the
\* instances no order resolves come last, in the insertion order of
\* mapping.instances, after all the resolved ones.
SeqRank ==
    2 * (Cardinality(InstanceNames(mapping)) - Len(result))
        + (IF spc = "done" THEN 0 ELSE 1)

SeqResolvedCount == Cardinality(InstanceNames(mapping) \ SeqUnresolved)

C3_CyclicOrder ==
    /\ [](SeqCyclic =>
            /\ NoDuplicates(result)
            /\ Range(result) \subseteq InstanceNames(mapping)
            /\ SeqRank >= 0
            /\ spc = "done" =>
                /\ Range(result) = InstanceNames(mapping)
                /\ Range(SubSeq(result, 1, SeqResolvedCount)) = InstanceNames(mapping) \ SeqUnresolved
                /\ SubSeq(result, SeqResolvedCount + 1, Len(result)) =
                       SelectSeq(NamesInOrder(mapping), LAMBDA n : n \in SeqUnresolved))
    /\ [][(SeqCyclic /\ spc = "loop") => SeqRank' < SeqRank]_vars

C3_Witness ==
    /\ spc = "done" /\ SeqCyclic
    /\ Len(result) = 3 /\ Cardinality(SeqUnresolved) = 2
    /\ \E a, b \in SeqUnresolved : <<a, a>> \in SeqReaches /\ <<b, b>> \notin SeqReaches
    /\ result # NamesInOrder(mapping)

-----------------------------------------------------------------------------
(* SQLLineageParser.parse_sql as LineageBuilder._parse_sql_lineage calls it *)

\* the step of the source qualifier whose query override is parsed
SqlStep(target_col) ==
    TransformationStep(1, "Q", SOURCE_QUALIFIER, <<>>, target_col, NoExpr)

\* one call of _parse_sql_lineage for a target column; qresults keeps what
\* parse_sql returned to it
ParseSqlLineageCall ==
    /\ qpc = "start"
    /\ \E target_col \in {"ID", "A"} :
          /\ edges' = ParseSqlLineage(sql, folder, "TGT", target_col, SqlStep(target_col)).value
          /\ qtarget' = target_col
    /\ source_tables' = FolderSourceTables(folder)
    /\ qresults' = ParseSql(sql, FolderSourceTables(folder)).value
    /\ qpc' = "done"
    /\ UNCHANGED <<mapping, folder, pc, instance_graph, todo, calls, visited, steps,
                   processed, lineage_chains, job_io, mcps, sql, gVars, rVars, sVars, cVars, hVars, eVars, jVars, mVars, wVars, xVars>>

SqlNext == ParseSqlLineageCall

\* ---- known tables: up to SqlMaxTables sources of the folder, by distinct names
SqlMaxTables == 2

SqlKnownChoices ==
    {[name |-> "ORDERS", fields |-> <<"ID", "A">>],
     [name |-> "CUST", fields |-> <<"ID">>],
     [name |-> "CUST", fields |-> <<"A">>],
     [name |-> "CUST", fields |-> <<"id", "ID">>],
     [name |-> "SCH.ORDERS", fields |-> <<"ID">>]}

SqlKnownTables ==
    {s \in SeqsUpTo(SqlKnownChoices, SqlMaxTables) :
        \A i, j \in DOMAIN s : i # j => s[i].name # s[j].name}

SqlFolder(known) ==
    [sources |-> [n \in {known[i].name : i \in DOMAIN known} |->
                    LET t == known[CHOOSE i \in DOMAIN known : known[i].name = n]
                    IN TableDefinition(t.name, None, t.fields)],
     source_order |-> [i \in DOMAIN known |-> known[i].name],
     targets |-> [n \in {"TGT"} |-> TableDefinition("TGT", None, <<"ID", "A">>)],
     transformations |-> EmptyDict]

\* ---- SELECT texts: up to SqlMaxExprs select expressions over a FROM clause
SqlMaxExprs == 2

\* FROM clauses: none, one table (known, unknown, aliased, named twice), two tables
SqlFromChoices ==
    {<<>>,
     <<QTable("ORDERS", "")>>,
     <<QTable("orders", "o")>>,
     <<QTable("ZED", "")>>,
     <<QTable("ORDERS", ""), QTable("ORDERS", "")>>,
     <<QTable("ORDERS", ""), QTable("CUST", "")>>,
     <<QTable("ORDERS", "o"), QTable("CUST", "C1")>>}

\* ID | id | A AS ID | o.ID | ID + A | *
SqlExprChoices ==
    {SelectExpr("column", "", <<Column("ID", "")>>, <<"ID">>),
     SelectExpr("column", "", <<Column("id", "")>>, <<"id">>),
     SelectExpr("alias", "ID", <<Column("A", "")>>, <<"A", " ", "AS", " ", "ID">>),
     SelectExpr("column", "", <<Column("ID", "o")>>, <<"o", ".", "ID">>),
     SelectExpr("other", "", <<Column("ID", ""), Column("A", "")>>, <<"ID", "+", "A">>),
     SelectExpr("star", "", <<>>, <<"*">>)}

SqlFromText(tables) ==
    Flatten([i \in DOMAIN tables |->
        (IF i = 1 THEN <<" ", "FROM", " ">> ELSE <<",", " ">>)
        \o <<tables[i].name>>
        \o (IF tables[i].alias # "" THEN <<" ", tables[i].alias>> ELSE <<>>)])

SqlSelect(exprs, tables) ==
    Query(<<"SELECT", " ">>
            \o Flatten([i \in DOMAIN exprs |->
                   (IF i = 1 THEN <<>> ELSE <<",", " ">>) \o exprs[i].text])
            \o SqlFromText(tables),
          "select", tables, exprs)

SqlQueries ==
    {SqlSelect(e, t) : e \in SeqsUpTo(SqlExprChoices, SqlMaxExprs) \ {<<>>},
                       t \in SqlFromChoices}

InitSql ==
    /\ sql \in SqlQueries
    /\ folder \in {SqlFolder(k) : k \in SqlKnownTables}
    /\ mapping = [instances |-> <<>>, connectors |-> <<>>, transformations |-> EmptyDict]
    /\ BuilderIdle
    /\ qpc = "start" /\ source_tables = <<>> /\ qresults = <<>> /\ qtarget = ""
    /\ IdleGraph /\ IdleResolve /\ IdleSequencer
    /\ IdleCalc
    /\ IdleHierarchy
    /\ IdleReferences
    /\ IdleJil
    /\ IdleFormula
    /\ IdleWorkflow
    /\ IdleExtractor

SpecSql == InitSql /\ [][SqlNext]_vars

\* ---- what the query and the known tables say, independently of the parser
\* every column reference of the query
SqlColumns ==
    UNION {Range(sql.parsed.expressions[i].cols) : i \in DOMAIN sql.parsed.expressions}

\* the names the query only ever writes without a table qualifier
SqlUnqualified ==
    {c.name : c \in {x \in SqlColumns : x.table = ""}}
        \ {c.name : c \in {x \in SqlColumns : x.table # ""}}

\* the known tables with a field of that name, whatever the case
SqlTablesContaining(c) ==
    {i \in DOMAIN source_tables :
        \E k \in DOMAIN source_tables[i].fields :
            Upper(source_tables[i].fields[k]) = Upper(c)}

\* the (known table, field) entries of that name, whatever the case
SqlFieldsNamed(c) ==
    UNION {{<<i, k>> : k \in {x \in DOMAIN source_tables[i].fields :
                                Upper(source_tables[i].fields[x]) = Upper(c)}} :
              i \in DOMAIN source_tables}

\* the (table, column) pairs returned for the select expressions other than *
SqlPairs ==
    UNION {Range(qresults[i].upstream_cols) :
              i \in {j \in DOMAIN qresults : qresults[j].expression # NoExpr}}

\* the edges made of them
SqlEdgesOf(c) ==
    {i \in DOMAIN edges :
        edges[i].transformation_expression # NoExpr /\ edges[i].source_column = c}

\* the aliases of the FROM clause, as source_refs keys them
SqlAliases ==
    {Upper(IF t.alias # "" THEN t.alias ELSE t.name) : t \in Range(sql.parsed.tables)}

-----------------------------------------------------------------------------
(* Graph construction, one connector at a time:                            *)
(* LineageBuilder._build_instance_graph and build_connector_index          *)

\* idx.setdefault((ti, tf), []).append((fi, ff))
IndexAdd(idx, c) ==
    LET key == <<c.to_instance, c.to_field>>
    IN Put(idx, key, Append(Get(idx, key, <<>>), <<c.from_instance, c.from_field>>))

RECURSIVE IndexFrom(_, _)
IndexFrom(idx, conns) ==
    IF conns = <<>> THEN idx ELSE IndexFrom(IndexAdd(idx, Head(conns)), Tail(conns))

BuildConnectorIndex(conns) == IndexFrom(EmptyDict, conns)

\* the fields (ports) an instance of the mapping has
InstanceFields(m, f, name) ==
    IF ~HasInstance(m, name) THEN {}
    ELSE LET inst == InstanceGet(m, name)
         IN IF inst.transformation_type = SOURCE_DEFINITION
            THEN IF inst.transformation_name \in DOMAIN f.sources
                 THEN Range(f.sources[inst.transformation_name].fields) ELSE {}
            ELSE IF inst.transformation_type = TARGET_DEFINITION
            THEN IF inst.transformation_name \in DOMAIN f.targets
                 THEN Range(f.targets[inst.transformation_name].fields) ELSE {}
            ELSE IF HasTransformation(m, f, inst)
            THEN DOMAIN GetTransformation(m, f, inst).fields
            ELSE {}

\* _build_instance_graph is entered: graph = {}
BuildInstanceGraphCall ==
    /\ gpc = "start"
    /\ gconn' = mapping.connectors
    /\ ggraph' = EmptyDict /\ gi' = 0
    /\ gpc' = "graph"
    /\ UNCHANGED <<gindex, lbVars, rVars, sVars, qVars, cVars, hVars, eVars, jVars, mVars, wVars, xVars>>

\* one iteration of its loop over mapping.connectors
BuildInstanceGraphAdd ==
    /\ gpc = "graph" /\ gi < Len(gconn)
    /\ ggraph' = GraphAdd(ggraph, gconn[gi + 1])
    /\ gi' = gi + 1
    /\ UNCHANGED <<gpc, gconn, gindex, lbVars, rVars, sVars, qVars, cVars, hVars, eVars, jVars, mVars, wVars, xVars>>

\* it returns; build_connector_index is entered on the same connectors: idx = {}
BuildConnectorIndexCall ==
    /\ gpc = "graph" /\ gi = Len(gconn)
    /\ gindex' = EmptyDict /\ gi' = 0
    /\ gpc' = "index"
    /\ UNCHANGED <<gconn, ggraph, lbVars, rVars, sVars, qVars, cVars, hVars, eVars, jVars, mVars, wVars, xVars>>

\* one iteration of its loop
BuildConnectorIndexAdd ==
    /\ gpc = "index" /\ gi < Len(gconn)
    /\ gindex' = IndexAdd(gindex, gconn[gi + 1])
    /\ gi' = gi + 1
    /\ UNCHANGED <<gpc, gconn, ggraph, lbVars, rVars, sVars, qVars, cVars, hVars, eVars, jVars, mVars, wVars, xVars>>

BuildConnectorIndexReturn ==
    /\ gpc = "index" /\ gi = Len(gconn)
    /\ gpc' = "done"
    /\ UNCHANGED <<gi, gconn, ggraph, gindex, lbVars, rVars, sVars, qVars, cVars, hVars, eVars, jVars, mVars, wVars, xVars>>

GraphNext ==
    \/ BuildInstanceGraphCall \/ BuildInstanceGraphAdd
    \/ BuildConnectorIndexCall \/ BuildConnectorIndexAdd \/ BuildConnectorIndexReturn

\* ---- connector lists of up to GraphMaxConn connectors, repeated ones
\*      included, over the instances T (fields A, B), X (A) and S (A); Z is a
\*      field no instance has and U an instance the mapping lacks
GraphMaxConn == 3

GraphConnectors ==
    {Connector("S", "A", "T", "A"), Connector("X", "A", "T", "A"),
     Connector("S", "A", "X", "A"), Connector("X", "A", "T", "B"),
     Connector("S", "Z", "T", "A"), Connector("S", "A", "T", "Z"),
     Connector("U", "A", "T", "B")}

InitGraph ==
    /\ mapping \in {TraceMapping(c) : c \in SeqsUpTo(GraphConnectors, GraphMaxConn)}
    /\ folder = TraceFolder
    /\ BuilderIdle
    /\ gpc = "start" /\ gi = 0 /\ gconn = <<>> /\ ggraph = EmptyDict /\ gindex = EmptyDict
    /\ IdleResolve /\ IdleSequencer /\ IdleSql
    /\ IdleCalc
    /\ IdleHierarchy
    /\ IdleReferences
    /\ IdleJil
    /\ IdleFormula
    /\ IdleWorkflow
    /\ IdleExtractor

SpecGraph == InitGraph /\ [][GraphNext]_vars

\* the (instance, field) pairs a connector of the list names
GraphPorts ==
    {<<c.from_instance, c.from_field>> : c \in Range(gconn)}
        \cup {<<c.to_instance, c.to_field>> : c \in Range(gconn)}

\* C5 as stated: a step that inserts a connector already inserted leaves the
\* list of upstream pairs of every (instance, field) as it was, in the
\* instance graph and in the connector index.
C5_InsertTwice ==
    [][(gi' = gi + 1 /\ \E j \in 1..gi : gconn[j] = gconn[gi + 1]) =>
          \A p \in GraphPorts :
              /\ UpstreamFields(ggraph', p[1], p[2]) = UpstreamFields(ggraph, p[1], p[2])
              /\ Get(gindex', p, <<>>) = Get(gindex, p, <<>>)]_vars

\* the connector S.A -> T.A inserted twice is listed twice
C5_Witness ==
    /\ gpc = "done"
    /\ gconn = <<Connector("S", "A", "T", "A"), Connector("S", "A", "T", "A")>>
    /\ UpstreamFields(ggraph, "T", "A") = << <<"S", "A">>, <<"S", "A">> >>
    /\ Get(gindex, <<"T", "A">>, <<>>) = << <<"S", "A">>, <<"S", "A">> >>

PortExists(p) == p[2] \in InstanceFields(mapping, folder, p[1])

\* C10 as stated: no connector naming an absent port enters the graph, so
\* every (instance, field) the instance graph or the connector index holds,
\* as a key or as an upstream pair, is a field of its instance.
C10_PortsExist ==
    /\ \A n \in DOMAIN ggraph : \A fld \in DOMAIN ggraph[n] :
          /\ PortExists(<<n, fld>>)
          /\ \A i \in DOMAIN ggraph[n][fld] : PortExists(ggraph[n][fld][i])
    /\ \A key \in DOMAIN gindex :
          /\ PortExists(key)
          /\ \A i \in DOMAIN gindex[key] : PortExists(gindex[key][i])

\* construction has completed with a connector from the absent field S.Z in
\* the graph and in the index
C10_Witness ==
    /\ gpc = "done"
    /\ <<"S", "Z">> \in Range(UpstreamFields(ggraph, "T", "A"))
    /\ <<"S", "Z">> \in Range(Get(gindex, <<"T", "A">>, <<>>))
    /\ ~PortExists(<<"S", "Z">>)

-----------------------------------------------------------------------------
(* extract_port_references and resolve_upstream_source_fields               *)

\* An expression is the sequence of its lexemes.  _TOKEN_RE finds a word that
\* starts with a capital letter wherever it stands, the inside of a quoted
\* literal included; lower-case words, numbers and operators hold none.
CapitalWords ==
    {"IIF", "DECODE", "NVL", "TO_DATE", "TO_CHAR", "SUBSTR", "CASE", "WHEN", "THEN",
     "ELSE", "END", "LTRIM", "A", "B", "C", "OUT", "ORDER_COUNT", "VIP", "ACTIVE"}
TokensIn(lexeme) ==
    IF lexeme \in CapitalWords THEN {lexeme}
    ELSE IF lexeme = "'VIP'" THEN {"VIP"}
    ELSE IF lexeme = "'ACTIVE'" THEN {"ACTIVE"}
    ELSE {}

FunctionTokens ==
    {"IIF", "DECODE", "NVL", "TO_DATE", "TO_CHAR", "SUBSTR", "CASE", "WHEN", "THEN",
     "ELSE", "END"}

ExtractPortReferences(expr) ==
    (UNION {TokensIn(expr[i]) : i \in DOMAIN expr}) \ FunctionTokens

Port(expr) == [expression |-> expr]

PortReferencesNone(m, inst, fld) == {}

\* the pairs one iteration appends to the frontier: the upstream ends of the
\* connectors into (inst, fld), then (inst, ref) for the references of the
\* port's expression in the order the set of references is walked
PortReferences(m, inst, fld) ==
    IF <<inst, fld>> \in DOMAIN m.ports /\ m.ports[<<inst, fld>>].expression # NoExpr
    THEN ExtractPortReferences(m.ports[<<inst, fld>>].expression)
    ELSE {}

\* ---- mappings with a source S, an expression X whose port OUT may carry an
\*      expression over its ports A and B, and a target T; up to
\*      ResolveMaxConn connectors, and hop limits from 1 to ResolveMaxHops
\*      beside the default
ResolveMaxConn == 3
ResolveMaxHops == 3
DefaultMaxHops == 2000

ResolveConnectors ==
    {Connector("S", "A", "X", "A"), Connector("S", "B", "X", "B"),
     Connector("X", "OUT", "T", "C"), Connector("S", "A", "T", "C"),
     Connector("S", "B", "T", "C"), Connector("T", "C", "X", "A"),
     Connector("S", "A", "S", "B")}

\* none | A + B | IIF(A > 0, 'VIP', B)
ResolveExpressions ==
    {NoExpr, <<"A", "+", "B">>,
     <<"IIF", "(", "A", ">", "0", ",", "'VIP'", ",", "B", ")">>}

ResolveMapping(conns, expr) ==
    [sources |-> {"S"},
     ports |-> [p \in {<<"X", "A">>, <<"X", "B">>, <<"X", "OUT">>} |->
                  Port(IF p = <<"X", "OUT">> THEN expr ELSE NoExpr)],
     connectors |-> conns]

ResolveTargets == {<<"T", "C">>, <<"X", "OUT">>}

\* the call, up to the while loop
ResolveUpstreamSourceFields ==
    /\ rpc = "start"
    /\ frontier' = <<rtarget>>
    /\ \E mh \in (1..ResolveMaxHops) \cup {DefaultMaxHops} : max_hops' = mh
    /\ reverse_edges' = BuildConnectorIndex(rmapping.connectors)
    /\ seen' = {} /\ hops' = 0
    /\ rpc' = "loop"
    /\ UNCHANGED <<rmapping, rtarget, rresult, lbVars, gVars, sVars, qVars, cVars, hVars, eVars, jVars, mVars, wVars, xVars>>

FrontierTop == frontier[Len(frontier)]
FrontierRest == SubSeq(frontier, 1, Len(frontier) - 1)

\* frontier.pop() gives a pair already seen: continue
ResolveSkipSeen ==
    /\ rpc = "loop" /\ frontier # <<>>
    /\ FrontierTop \in seen
    /\ frontier' = FrontierRest
    /\ UNCHANGED <<rpc, rmapping, rtarget, max_hops, reverse_edges, seen, hops, rresult,
                   lbVars, gVars, sVars, qVars, cVars, hVars, eVars, jVars, mVars, wVars, xVars>>

\* the pair is new and hops passes max_hops: break
ResolveHopLimit ==
    /\ rpc = "loop" /\ frontier # <<>>
    /\ FrontierTop \notin seen
    /\ hops + 1 > max_hops
    /\ seen' = seen \cup {FrontierTop}
    /\ hops' = hops + 1
    /\ frontier' = FrontierRest
    /\ rpc' = "break"
    /\ UNCHANGED <<rmapping, rtarget, max_hops, reverse_edges, rresult, lbVars, gVars, sVars, qVars, cVars, hVars, eVars, jVars, mVars, wVars, xVars>>

\* the pair is new and its instance is a source: continue
ResolveSourceStop ==
    /\ rpc = "loop" /\ frontier # <<>>
    /\ FrontierTop \notin seen
    /\ hops + 1 <= max_hops
    /\ FrontierTop[1] \in rmapping.sources
    /\ seen' = seen \cup {FrontierTop}
    /\ hops' = hops + 1
    /\ frontier' = FrontierRest
    /\ UNCHANGED <<rpc, rmapping, rtarget, max_hops, reverse_edges, rresult,
                   lbVars, gVars, sVars, qVars, cVars, hVars, eVars, jVars, mVars, wVars, xVars>>

\* the pair is new: its upstream pairs go on the frontier
ResolveExpand ==
    /\ rpc = "loop" /\ frontier # <<>>
    /\ FrontierTop \notin seen
    /\ hops + 1 <= max_hops
    /\ FrontierTop[1] \notin rmapping.sources
    /\ seen' = seen \cup {FrontierTop}
    /\ hops' = hops + 1
    /\ \E order \in IterationOrders(PortReferences(rmapping, FrontierTop[1], FrontierTop[2])) :
          frontier' = FrontierRest
                        \o Get(reverse_edges, FrontierTop, <<>>)
                        \o [i \in DOMAIN order |-> <<FrontierTop[1], order[i]>>]
    /\ UNCHANGED <<rpc, rmapping, rtarget, max_hops, reverse_edges, rresult,
                   lbVars, gVars, sVars, qVars, cVars, hVars, eVars, jVars, mVars, wVars, xVars>>

\* the loop has ended, by an empty frontier or by the break
ResolveReturn ==
    /\ \/ rpc = "loop" /\ frontier = <<>>
       \/ rpc = "break"
    /\ rresult' = {p \in seen : p[1] \in rmapping.sources}
    /\ rpc' = "done"
    /\ UNCHANGED <<rmapping, rtarget, max_hops, reverse_edges, seen, frontier, hops,
                   lbVars, gVars, sVars, qVars, cVars, hVars, eVars, jVars, mVars, wVars, xVars>>

ResolveNext ==
    \/ ResolveUpstreamSourceFields
    \/ ResolveSkipSeen \/ ResolveHopLimit \/ ResolveSourceStop \/ ResolveExpand
    \/ ResolveReturn

InitResolve ==
    /\ rmapping \in {ResolveMapping(c, e) : c \in SeqsUpTo(ResolveConnectors, ResolveMaxConn),
                                           e \in ResolveExpressions}
    /\ rtarget \in ResolveTargets
    /\ rpc = "start" /\ max_hops = 0 /\ reverse_edges = EmptyDict /\ seen = {}
    /\ frontier = <<>> /\ hops = 0 /\ rresult = {}
    /\ IdleLineage /\ IdleGraph /\ IdleSequencer /\ IdleSql
    /\ IdleCalc
    /\ IdleHierarchy
    /\ IdleReferences
    /\ IdleJil
    /\ IdleFormula
    /\ IdleWorkflow
    /\ IdleExtractor

SpecResolve == InitResolve /\ [][ResolveNext]_vars

\* C8 as stated: the call returns, and the hop limit leaves no pair pending
\* on the frontier that was not processed.
C8_BranchOnly ==
    /\ rpc # "failed"
    /\ rpc = "done" => \A i \in DOMAIN frontier : frontier[i] \in seen

\* max_hops is 1 and the target T.C has the two sources S.A and S.B upstream:
\* the call has returned with S.A still on the frontier, and not in the result
C8_Witness ==
    /\ rpc = "done" /\ max_hops = 1 /\ hops = 2
    /\ frontier = << <<"S", "A">> >>
    /\ rresult = {<<"S", "B">>}
    /\ Get(reverse_edges, <<"T", "C">>, <<>>) = << <<"S", "A">>, <<"S", "B">> >>

-----------------------------------------------------------------------------
(* Stored procedure instances on a trace *)

\* the chains build_column_lineage_edges walked, once it has returned
ChainsDone == IF pc \in {"edges", "job", "done"} THEN lineage_chains ELSE <<>>

\* the edges _build_stored_proc_lineage made for one step of one chain
ProcedureEdgesOf(key, step) ==
    {i \in DOMAIN edges :
        /\ edges[i].origin = "procedure"
        /\ edges[i].target_dataset = <<key[1]>> /\ edges[i].target_column = key[2]
        /\ edges[i].step_order = step.step_order}

\* C11 as stated: the step of a stored procedure instance is not followed, in
\* the chain of its trace, by steps for the fields upstream of it (the steps
\* of a descent come right after it with a larger step_order), and exactly one
\* edge is emitted for it: source column "*", confidence 1.0, the procedure
\* named in its expression.
C11_OpaqueCall ==
    \A c \in DOMAIN ChainsDone :
        LET chain == ChainsDone[c].chain
        IN \A k \in DOMAIN chain :
              chain[k].transformation_type = STORED_PROCEDURE =>
                  /\ (k + 1 \in DOMAIN chain =>
                          chain[k + 1].step_order <= chain[k].step_order)
                  /\ Cardinality(ProcedureEdgesOf(ChainsDone[c].key, chain[k])) = 1
                  /\ \A i \in ProcedureEdgesOf(ChainsDone[c].key, chain[k]) :
                        /\ edges[i].source_column = "*"
                        /\ edges[i].confidence_score = 100
                        /\ edges[i].transformation_expression =
                               <<"EXEC", edges[i].source_dataset>>

\* the trace of T.A went through P.A into S.A, the field upstream of it
C11_Witness ==
    /\ pc = "done"
    /\ \E c \in DOMAIN lineage_chains :
          LET chain == lineage_chains[c].chain
          IN /\ lineage_chains[c].key = <<"TGT", "A">>
             /\ Len(chain) >= 3
             /\ chain[2].instance_name = "P" /\ chain[2].step_order = 1
             /\ chain[3].instance_name = "S" /\ chain[3].step_order = 2
             /\ Cardinality(ProcedureEdgesOf(lineage_chains[c].key, chain[2])) = 1

-----------------------------------------------------------------------------
(* The edges of a query override *)

\* the (table, column) pairs, in order, of the results parse_sql returned for
\* the projection outputs that match the target column
SqlMatchingPairs ==
    Flatten([i \in DOMAIN qresults |->
        IF Upper(qresults[i].output_col) = Upper(qtarget)
        THEN qresults[i].upstream_cols ELSE <<>>])

\* those of them whose table is a source of the folder
SqlSourcePairs == SelectSeq(SqlMatchingPairs, LAMBDA p : p[1] \in DOMAIN folder.sources)

SqlEdgesAreProjections ==
    \A i \in DOMAIN edges :
        /\ edges[i].confidence_score = 95
        /\ edges[i].target_column = qtarget

\* C12 as stated: one edge of confidence 0.95 for each pair returned for the
\* outputs matching the target column, and no other edge.
C12_EdgePerPair ==
    qpc = "done" =>
        /\ Len(edges) = Len(SqlMatchingPairs)
        /\ SqlEdgesAreProjections

\* C12: one call of _parse_sql_lineage on a query that is no procedure call
\* emits one edge of confidence 0.95 for each (table, column) pair returned
\* for the outputs matching the target column whose table is a source of the
\* folder, in the order returned, and no other edge; a pair whose table is
\* not a source of the folder gives no edge.
C12_EdgePerSourcePair ==
    qpc = "done" =>
        /\ [i \in DOMAIN edges |-> <<edges[i].source_dataset, edges[i].source_column>>]
              = [k \in DOMAIN SqlSourcePairs |->
                    <<DatasetName(folder.sources[SqlSourcePairs[k][1]]), SqlSourcePairs[k][2]>>]
        /\ SqlEdgesAreProjections

\* two outputs, one of them the target column: it gave an edge, the other none;
\* and a pair of the matching output names a table that is no source
C12_Witness ==
    /\ qpc = "done"
    /\ Len(edges) = 1
    /\ \E i \in DOMAIN qresults : Upper(qresults[i].output_col) # Upper(qtarget)
    /\ Len(SqlMatchingPairs) = 2

-----------------------------------------------------------------------------
(* CalcScriptParser: the FIX stack of _parse_script_body *)

\* A line of a calc script, stripped: the words before its first
\* parenthesis, the items between the parentheses (has_group tells whether
\* there are any parentheses) and the words after them.  An item of a group
\* is Dim->member ("dim"), a quoted member ("quoted") or a bare word ("bare").
Line(pre, has_group, group, post) ==
    [pre |-> pre, has_group |-> has_group, group |-> group, post |-> post]
DimItem(dim, member) == [kind |-> "dim", dim |-> dim, member |-> member]
QuotedItem(member) == [kind |-> "quoted", dim |-> "", member |-> member]
BareItem(member) == [kind |-> "bare", dim |-> "", member |-> member]

\* not stripped or stripped.startswith('/*') or stripped.startswith('//')
IsBlankOrComment(line) ==
    \/ line.pre = <<>> /\ ~line.has_group
    \/ line.pre # <<>> /\ line.pre[1] \in {"/*", "//"}

\* FIX\s*\(([^)]+)\) with re.IGNORECASE, searched anywhere in the line: the
\* word before the parentheses ends with FIX and the parentheses are not empty
EndsWithFix(word) == word \in {"FIX", "fix", "Fix", "ENDFIX", "endfix"}
FixStartSearch(line) ==
    /\ line.has_group /\ line.group # <<>>
    /\ line.pre # <<>> /\ EndsWithFix(line.pre[Len(line.pre)])

\* ENDFIX\s*;? with re.IGNORECASE, matched at the start of the line
FixEndMatch(line) == line.pre # <<>> /\ line.pre[1] \in {"ENDFIX", "endfix", "EndFix"}

\* members_by_dim[dim].append(member) for the Dim->member items, in order
RECURSIVE DimMembers(_, _)
DimMembers(by_dim, items) ==
    IF items = <<>> THEN by_dim
    ELSE LET it == Head(items)
         IN DimMembers(IF it.kind = "dim"
                       THEN Put(by_dim, it.dim, Append(Get(by_dim, it.dim, <<>>), it.member))
                       ELSE by_dim,
                       Tail(items))

\* _parse_fix_members on the text between the parentheses (it holds no ")",
\* so the cross-dimensional pattern finds nothing in it): the quoted members
\* no dimension lists are filed under "_unresolved_"
ParseFixMembers(items) ==
    LET by_dim == DimMembers(EmptyDict, items)
        bare_members ==
            SelectSeq([i \in DOMAIN items |-> items[i]],
                      LAMBDA it : /\ it.kind = "quoted"
                                  /\ ~\E d \in DOMAIN by_dim : it.member \in Range(by_dim[d]))
    IN IF bare_members # <<>>
       THEN Put(by_dim, "_unresolved_",
                [i \in DOMAIN bare_members |-> bare_members[i].member])
       ELSE by_dim

\* merged[dim].extend(m for m in members if m not in merged[dim]): the test
\* of each member sees the members appended before it
AppendAll(list, members) == list \o members
RECURSIVE AppendNew(_, _)
AppendNew(list, members) ==
    IF members = <<>> THEN list
    ELSE AppendNew(IF Head(members) \in Range(list) THEN list
                   ELSE Append(list, Head(members)),
                   Tail(members))

\* one fix_ctx of the loop of _merge_fix_contexts
MergeInto(merged, fix_ctx) ==
    [dim \in DOMAIN merged \cup DOMAIN fix_ctx |->
        IF dim \in DOMAIN fix_ctx
        THEN AppendNew(Get(merged, dim, <<>>), fix_ctx[dim])
        ELSE merged[dim]]

\* _merge_fix_contexts: the loop runs over the list from its first element,
\* the frame pushed first
RECURSIVE MergeFrom(_, _)
MergeFrom(merged, stack) ==
    IF stack = <<>> THEN merged ELSE MergeFrom(MergeInto(merged, Head(stack)), Tail(stack))
MergeFixContexts(stack) == MergeFrom(EmptyDict, stack)

\* fix_stack.append(fix_members)
PushFirst(stack, frame) == <<frame>> \o stack
Push(stack, frame) == Append(stack, frame)

\* if fix_stack: fix_stack.pop() -- [raised, value]; list.pop() on an empty
\* list raises IndexError
PopAlways(stack) ==
    IF stack = <<>> THEN [raised |-> TRUE, value |-> stack]
    ELSE [raised |-> FALSE, value |-> SubSeq(stack, 1, Len(stack) - 1)]
PopIfAny(stack) ==
    IF stack # <<>> THEN [raised |-> FALSE, value |-> SubSeq(stack, 1, Len(stack) - 1)]
    ELSE [raised |-> FALSE, value |-> stack]

\* _parse_operation, for the statements the model draws: AGG (...); gives a
\* transform, a line no pattern matches gives None
IsAggregation(line) ==
    /\ line.has_group /\ line.group # <<>>
    /\ line.pre # <<>> /\ line.pre[Len(line.pre)] \in {"AGG", "agg"}
    /\ line.post # <<>> /\ line.post[1] = ";"

\* fix_context is <<>> for None and <<context>> otherwise
CalcTransform(line_number, fix_context) ==
    [operation_type |-> "aggregation", line_number |-> line_number,
     fix_context |-> fix_context]

CurrentFix(stack) == IF stack # <<>> THEN <<MergeFixContexts(stack)>> ELSE <<>>

\* the call, up to the loop over the lines
ParseScriptBody ==
    /\ cpc = "start"
    /\ line_num' = 0 /\ fix_stack' = <<>> /\ transforms' = <<>>
    /\ cpc' = "lines"
    /\ UNCHANGED <<script, lbVars, gVars, rVars, sVars, qVars, hVars, eVars, jVars, mVars, wVars, xVars>>

NextLine == script[line_num + 1]

\* a blank line or a comment: continue
CalcSkipLine ==
    /\ cpc = "lines" /\ line_num < Len(script)
    /\ IsBlankOrComment(NextLine)
    /\ line_num' = line_num + 1
    /\ UNCHANGED <<cpc, script, fix_stack, transforms, lbVars, gVars, rVars, sVars, qVars, hVars, eVars, jVars, mVars, wVars, xVars>>

\* FIX (...): the members are pushed
CalcFixStart ==
    /\ cpc = "lines" /\ line_num < Len(script)
    /\ ~IsBlankOrComment(NextLine)
    /\ FixStartSearch(NextLine)
    /\ fix_stack' = Push(fix_stack, ParseFixMembers(NextLine.group))
    /\ line_num' = line_num + 1
    /\ UNCHANGED <<cpc, script, transforms, lbVars, gVars, rVars, sVars, qVars, hVars, eVars, jVars, mVars, wVars, xVars>>

\* ENDFIX: the last frame is popped, if there is one
CalcFixEnd ==
    /\ cpc = "lines" /\ line_num < Len(script)
    /\ ~IsBlankOrComment(NextLine)
    /\ ~FixStartSearch(NextLine)
    /\ FixEndMatch(NextLine)
    /\ fix_stack' = PopIfAny(fix_stack).value
    /\ line_num' = line_num + 1
    /\ cpc' = IF PopIfAny(fix_stack).raised THEN "failed" ELSE cpc
    /\ UNCHANGED <<script, transforms, lbVars, gVars, rVars, sVars, qVars, hVars, eVars, jVars, mVars, wVars, xVars>>

\* any other line: its transform, if it has one, carries the merged context
CalcOperation ==
    /\ cpc = "lines" /\ line_num < Len(script)
    /\ ~IsBlankOrComment(NextLine)
    /\ ~FixStartSearch(NextLine)
    /\ ~FixEndMatch(NextLine)
    /\ transforms' = IF IsAggregation(NextLine)
                     THEN Append(transforms,
                                 CalcTransform(line_num + 1, CurrentFix(fix_stack)))
                     ELSE transforms
    /\ line_num' = line_num + 1
    /\ UNCHANGED <<cpc, script, fix_stack, lbVars, gVars, rVars, sVars, qVars, hVars, eVars, jVars, mVars, wVars, xVars>>

CalcReturn ==
    /\ cpc = "lines" /\ line_num = Len(script)
    /\ cpc' = "done"
    /\ UNCHANGED <<script, line_num, fix_stack, transforms,
                   lbVars, gVars, rVars, sVars, qVars, hVars, eVars, jVars, mVars, wVars, xVars>>

CalcNext ==
    \/ ParseScriptBody
    \/ CalcSkipLine \/ CalcFixStart \/ CalcFixEnd \/ CalcOperation
    \/ CalcReturn

\* ---- scripts of up to CalcMaxLines lines
CalcMaxLines == 4

\* FIX(Year->Jan) | fix(Year->Feb, Year->Jan) | FIX(Market->East, "Q1", "Q1")
\* | ENDFIX | AGG(Market); | SET x | // ENDFIX
CalcLines ==
    {Line(<<"FIX">>, TRUE, <<DimItem("Year", "Jan")>>, <<>>),
     Line(<<"fix">>, TRUE, <<DimItem("Year", "Feb"), DimItem("Year", "Jan")>>, <<>>),
     Line(<<"FIX">>, TRUE, <<DimItem("Market", "East"), QuotedItem("Q1"),
                             QuotedItem("Q1")>>, <<>>),
     Line(<<"ENDFIX">>, FALSE, <<>>, <<>>),
     Line(<<"AGG">>, TRUE, <<BareItem("Market")>>, <<";">>),
     Line(<<"SET", "x">>, FALSE, <<>>, <<>>),
     Line(<<"//", "ENDFIX">>, FALSE, <<>>, <<>>)}

InitCalc ==
    /\ script \in SeqsUpTo(CalcLines, CalcMaxLines)
    /\ cpc = "start" /\ line_num = 0 /\ fix_stack = <<>> /\ transforms = <<>>
    /\ IdleLineage /\ IdleGraph /\ IdleResolve /\ IdleSequencer /\ IdleSql
    /\ IdleHierarchy
    /\ IdleReferences
    /\ IdleJil
    /\ IdleFormula
    /\ IdleWorkflow
    /\ IdleExtractor

SpecCalc == InitCalc /\ [][CalcNext]_vars

\* ---- the scopes of a script, read off its lines independently of the stack
IsOpenLine(i) == ~IsBlankOrComment(script[i]) /\ FixStartSearch(script[i])
IsCloseLine(i) ==
    /\ ~IsBlankOrComment(script[i]) /\ ~FixStartSearch(script[i])
    /\ FixEndMatch(script[i])
IsAggregationLine(i) ==
    /\ ~IsBlankOrComment(script[i]) /\ ~IsOpenLine(i) /\ ~IsCloseLine(i)
    /\ IsAggregation(script[i])

\* the scope opened at line i is still open before line n: at no line between
\* them have more scopes been closed than opened since i
OpenAt(i, n) ==
    /\ i < n /\ IsOpenLine(i)
    /\ \A j \in (i + 1)..(n - 1) :
          Cardinality({k \in (i + 1)..j : IsCloseLine(k)})
              <= Cardinality({k \in (i + 1)..j : IsOpenLine(k)})

\* the member lists of the scopes open before line n, outermost first
OpenFramesAt(n) ==
    LET open == SelectSeq([i \in 1..(n - 1) |-> i], LAMBDA i : OpenAt(i, n))
    IN [k \in DOMAIN open |-> ParseFixMembers(script[open[k]].group)]

Reversed(s) == [i \in DOMAIN s |-> s[Len(s) + 1 - i]]

\* the members the frames list for a dimension, in the order of the frames
MembersListed(frames, dim) ==
    Flatten([k \in DOMAIN frames |-> Get(frames[k], dim, <<>>)])

FirstIndex(s, x) == CHOOSE i \in DOMAIN s : s[i] = x /\ \A j \in 1..(i - 1) : s[j] # x

\* list holds each member of listed once, in the order of first appearance
InFirstSeenOrder(list, listed) ==
    /\ NoDuplicates(list)
    /\ Range(list) = Range(listed)
    /\ \A a, b \in Range(list) :
          PositionIn(list, a) < PositionIn(list, b)
              <=> FirstIndex(listed, a) < FirstIndex(listed, b)

\* ctx is the union of the frames walked in the given order
IsUnionOf(ctx, frames) ==
    /\ DOMAIN ctx = UNION {DOMAIN frames[k] : k \in DOMAIN frames}
    /\ \A dim \in DOMAIN ctx : InFirstSeenOrder(ctx[dim], MembersListed(frames, dim))

\* C13 as stated: the context a statement is given lists, per dimension, the
\* members of the open frames once each, in first-seen order when the stack
\* is walked from its top (the frame pushed last) to its bottom.
C13_TopToBottom ==
    \A t \in DOMAIN transforms :
        transforms[t].fix_context # <<>> =>
            IsUnionOf(transforms[t].fix_context[1],
                      Reversed(OpenFramesAt(transforms[t].line_number)))

\* C13: the context a statement is given lists, per dimension, the members
\* of the open frames once each, in first-seen order when the stack is walked
\* from its bottom (the outermost scope, pushed first) to its top.
C13_BottomToTop ==
    \A t \in DOMAIN transforms :
        transforms[t].fix_context # <<>> =>
            IsUnionOf(transforms[t].fix_context[1],
                      OpenFramesAt(transforms[t].line_number))

\* FIX(Year->Jan), fix(Year->Feb, Year->Jan), AGG(Market); -- Year is Jan, Feb
C13_Witness ==
    /\ cpc = "done" /\ Len(script) >= 3
    /\ \E t \in DOMAIN transforms :
          /\ transforms[t].line_number = 3
          /\ transforms[t].fix_context # <<>>
          /\ Len(OpenFramesAt(3)) = 2
          /\ "Year" \in DOMAIN transforms[t].fix_context[1]
          /\ transforms[t].fix_context[1]["Year"] = <<"Jan", "Feb">>

\* C14: the stack holds exactly the frames of the scopes still open, the one
\* opened last on top, so a pop leaves the stack as it was before the push it
\* undoes; and every statement is given the merge of the scopes open around
\* it, and of no scope closed before it.
C14_PopUndoesPush ==
    /\ cpc \in {"lines", "done"} => fix_stack = OpenFramesAt(line_num + 1)
    /\ \A t \in DOMAIN transforms :
          transforms[t].fix_context = CurrentFix(OpenFramesAt(transforms[t].line_number))

\* FIX(Year->Jan), FIX(Market->East, ...), ENDFIX, AGG(Market);
C14_Witness ==
    /\ cpc = "done" /\ Len(script) = 4
    /\ IsOpenLine(1) /\ IsOpenLine(2) /\ IsCloseLine(3) /\ IsAggregationLine(4)
    /\ "Market" \in DOMAIN ParseFixMembers(script[2].group)
    /\ Len(transforms) = 1
    /\ transforms[1].fix_context = <<ParseFixMembers(script[1].group)>>
    /\ Len(fix_stack) = 1

\* C15: an ENDFIX met with an empty stack changes nothing but the line
\* counter, the call does not fail, and every statement after it is parsed.
C15_UnbalancedClose ==
    /\ [](cpc # "failed")
    /\ [](cpc = "done" =>
            {transforms[t].line_number : t \in DOMAIN transforms}
                = {n \in DOMAIN script : IsAggregationLine(n)})
    /\ [][(cpc = "lines" /\ line_num < Len(script) /\ IsCloseLine(line_num + 1)
              /\ fix_stack = <<>>)
            => (fix_stack' = <<>> /\ cpc' = "lines" /\ line_num' = line_num + 1
                  /\ transforms' = transforms)]_vars

\* ENDFIX, FIX(...), AGG(...); -- the statement after the stray ENDFIX is
\* parsed, inside the scope opened after it
C15_Witness ==
    /\ cpc = "done" /\ Len(script) >= 3
    /\ IsCloseLine(1) /\ IsOpenLine(2) /\ IsAggregationLine(3)
    /\ Len(transforms) >= 1 /\ transforms[1].line_number = 3
    /\ transforms[1].fix_context # <<>>

-----------------------------------------------------------------------------
(* SchemaExtractor.extract_cube / _extract_members and                      *)
(* LineageExtractor.extract_consolidation_lineage                           *)
(*                                                                          *)
(* dim_data is what the client returns: per dimension its name and the      *)
(* member records [name, parentName, consolidation].  A field               *)
(* "{dimension}.{member}" is the pair <<dimension, member>>.                *)

MemberData(name, parentName, consolidation) ==
    [name |-> name, parentName |-> parentName, consolidation |-> consolidation]

\* MemberConsolidation values
ConsolidationValues == {"+", "-", "*", "/", "%", "~", "^"}

\* SchemaExtractor._map_consolidation
MapConsolidation(value) == IF value \in ConsolidationValues THEN value ELSE "+"

\* SchemaExtractor._parse_member; children is the model's default_factory=list
ParseMember(data) ==
    [name          |-> data.name,
     parent        |-> data.parentName,
     consolidation |-> MapConsolidation(data.consolidation),
     children      |-> <<>>]

\* member_map = {m.name: m ...}: the index of the last member of each name
MemberMap(members) ==
    [n \in {members[i].name : i \in DOMAIN members} |->
        CHOOSE i \in DOMAIN members :
            members[i].name = n /\ \A j \in DOMAIN members : members[j].name = n => j <= i]

\* for member in members: if member.parent and member.parent in member_map:
\*     if member.name not in parent.children: parent.children.append(member.name)
RECURSIVE BuildRelationships(_, _)
BuildRelationships(members, i) ==
    IF i > Len(members) THEN members
    ELSE LET member == members[i]
             mm == MemberMap(members)
         IN IF member.parent # <<>> /\ member.parent[1] # ""
                  /\ member.parent[1] \in DOMAIN mm
            THEN LET p == mm[member.parent[1]]
                     parent == members[p]
                 IN IF member.name \in Range(parent.children)
                    THEN BuildRelationships(members, i + 1)
                    ELSE BuildRelationships(
                            [members EXCEPT ![p].children = Append(@, member.name)],
                            i + 1)
            ELSE BuildRelationships(members, i + 1)

ExtractMembers(data) ==
    BuildRelationships([i \in DOMAIN data |-> ParseMember(data[i])], 1)

ExtractDimension(d) == [name |-> d.name, members |-> ExtractMembers(d.members)]

\* ColumnLineageMapping.confidence: Field(default=1.0)
MappingDefaultConfidence == 100

ConsolidationToTransformSum(operator) == "SUM"

\* LineageExtractor._consolidation_to_transform
ConsolidationToTransform(operator) ==
    LET table == [x \in ConsolidationValues |->
                    CASE x = "+" -> "SUM"
                      [] x = "-" -> "SUBTRACT"
                      [] x = "*" -> "MULTIPLY"
                      [] x = "/" -> "DIVIDE"
                      [] x = "%" -> "PERCENT"
                      [] x = "~" -> "IGNORE"
                      [] x = "^" -> "NEVER_CONSOLIDATE"]
    IN Get(table, operator, "SUM")

ColumnLineageMapping(dataset, dimension, member, child) ==
    [source_dataset            |-> dataset,
     source_field              |-> <<dimension.name, child.name>>,
     target_dataset            |-> dataset,
     target_field              |-> <<dimension.name, member.name>>,
     transformation_type       |-> "consolidation",
     transformation_expression |-> <<child.consolidation, child.name>>,
     confidence                |-> MappingDefaultConfidence,
     aggregation_function      |-> ConsolidationToTransform(child.consolidation)]

\* the mappings of one member: for child_name in member.children, skipping
\* the names member_map does not hold
MemberMappings(dataset, dimension, member) ==
    LET mm == MemberMap(dimension.members)
        known == SelectSeq(member.children, LAMBDA c : c \in DOMAIN mm)
    IN [k \in DOMAIN known |->
          ColumnLineageMapping(dataset, dimension, member, dimension.members[mm[known[k]]])]

\* the mappings of one dimension, member by member
DimensionMappings(dataset, dimension) ==
    Flatten([i \in DOMAIN dimension.members |->
                MemberMappings(dataset, dimension, dimension.members[i])])

\* ---- the actions: extract_cube, then extract_consolidation_lineage
ExtractCube ==
    /\ hpc = "start"
    /\ hpc' = "dimensions"
    /\ cube' = [application |-> "Sample", name |-> "Basic", dimensions |-> <<>>]
    /\ UNCHANGED <<dim_data, hdim, lineage_mappings>>
    /\ UNCHANGED <<lbVars, gVars, rVars, sVars, qVars, cVars, eVars, jVars, mVars, wVars, xVars>>

\* for dim_info in dim_list: cube.dimensions.append(self.extract_dimension(...))
ExtractCubeDimension ==
    /\ hpc = "dimensions"
    /\ Len(cube.dimensions) < Len(dim_data)
    /\ cube' = [cube EXCEPT !.dimensions =
                   Append(@, ExtractDimension(dim_data[Len(cube.dimensions) + 1]))]
    /\ UNCHANGED <<hpc, dim_data, hdim, lineage_mappings>>
    /\ UNCHANGED <<lbVars, gVars, rVars, sVars, qVars, cVars, eVars, jVars, mVars, wVars, xVars>>

ExtractConsolidationLineage ==
    /\ hpc = "dimensions"
    /\ Len(cube.dimensions) = Len(dim_data)
    /\ hpc' = "consolidation"
    /\ hdim' = 0
    /\ lineage_mappings' = <<>>
    /\ UNCHANGED <<dim_data, cube>>
    /\ UNCHANGED <<lbVars, gVars, rVars, sVars, qVars, cVars, eVars, jVars, mVars, wVars, xVars>>

\* for dimension in cube.dimensions: ...
ConsolidateDimension ==
    /\ hpc = "consolidation"
    /\ hdim < Len(cube.dimensions)
    /\ hdim' = hdim + 1
    /\ lineage_mappings' =
          lineage_mappings
              \o DimensionMappings(<<cube.application, cube.name>>, cube.dimensions[hdim + 1])
    /\ UNCHANGED <<hpc, dim_data, cube>>
    /\ UNCHANGED <<lbVars, gVars, rVars, sVars, qVars, cVars, eVars, jVars, mVars, wVars, xVars>>

ConsolidationReturn ==
    /\ hpc = "consolidation"
    /\ hdim = Len(cube.dimensions)
    /\ hpc' = "done"
    /\ UNCHANGED <<dim_data, cube, hdim, lineage_mappings>>
    /\ UNCHANGED <<lbVars, gVars, rVars, sVars, qVars, cVars, eVars, jVars, mVars, wVars, xVars>>

HierarchyNext ==
    \/ ExtractCube
    \/ ExtractCubeDimension
    \/ ExtractConsolidationLineage
    \/ ConsolidateDimension
    \/ ConsolidationReturn

\* ---- the cubes the model draws: one dimension of up to HierMaxMembers
\* members with distinct names, any parent names (a member, the member
\* itself, a name the dimension does not hold, none) and any operators (one
\* the API may send that MemberConsolidation does not know included),
\* followed or not by a second dimension
HierMaxMembers == 3
HierNames == {"Total", "Q1", "Q2"}
HierParents == {<<>>, <<"Total">>, <<"Q1">>, <<"Gone">>}
HierOperators == <<"+", "-", "*", "/", "%", "~", "^", "?">>
HierNameLists ==
    {s \in SeqsUpTo(HierNames, HierMaxMembers) : NoDuplicates(s) /\ Len(s) <= Cardinality(HierNames)}
HierMemberLists ==
    UNION {{[i \in DOMAIN names |->
                MemberData(names[i], parents[i],
                           HierOperators[((i + r) % Len(HierOperators)) + 1])] :
              r \in 0..(Len(HierOperators) - 1),
              parents \in [DOMAIN names -> HierParents]} :
           names \in HierNameLists}
MarketDimension ==
    [name |-> "Market",
     members |-> <<MemberData("Q1", <<"Market">>, "-"), MemberData("Market", <<>>, "+")>>]
HierDimData ==
    {<<[name |-> "Year", members |-> ms]>> \o rest :
        ms \in HierMemberLists, rest \in {<<>>, <<MarketDimension>>}}

InitHierarchy ==
    /\ hpc = "start"
    /\ dim_data \in HierDimData
    /\ cube = [application |-> "", name |-> "", dimensions |-> <<>>]
    /\ hdim = 0
    /\ lineage_mappings = <<>>
    /\ IdleLineage /\ IdleGraph /\ IdleResolve /\ IdleSequencer /\ IdleSql /\ IdleCalc
    /\ IdleReferences
    /\ IdleJil
    /\ IdleFormula
    /\ IdleWorkflow
    /\ IdleExtractor

SpecHierarchy == InitHierarchy /\ [][HierarchyNext]_vars

\* ---- the hierarchy as recorded, and the table of the operators
RecordedChildren(dimension, member) == Range(member.children)

\* the operator the client sent for a member of a dimension
OperatorSent(d, name) ==
    LET data == dim_data[d].members
    IN data[CHOOSE i \in DOMAIN data : data[i].name = name].consolidation

AggregationTag(operator) ==
    CASE operator = "+" -> "SUM"
      [] operator = "-" -> "SUBTRACT"
      [] operator = "*" -> "MULTIPLY"
      [] operator = "/" -> "DIVIDE"
      [] operator = "%" -> "PERCENT"
      [] operator = "~" -> "IGNORE"
      [] operator = "^" -> "NEVER_CONSOLIDATE"
      [] OTHER -> "SUM"

ParentChildPairs ==
    {<<d, p, c>> \in (DOMAIN cube.dimensions) \X (HierNames \cup {"Market"})
                        \X (HierNames \cup {"Market"}) :
        \E i \in DOMAIN cube.dimensions[d].members :
            /\ cube.dimensions[d].members[i].name = p
            /\ c \in RecordedChildren(cube.dimensions[d], cube.dimensions[d].members[i])}

MappingsOfPair(d, p, c) ==
    {k \in DOMAIN lineage_mappings :
        /\ lineage_mappings[k].source_field = <<cube.dimensions[d].name, c>>
        /\ lineage_mappings[k].target_field = <<cube.dimensions[d].name, p>>}

-----------------------------------------------------------------------------
(* extract_port_references applied to an expression *)

ExtractPortReferencesCall ==
    /\ epc = "start"
    /\ erefs' = ExtractPortReferences(eexpr)
    /\ epc' = "done"
    /\ UNCHANGED <<eexpr, lbVars, gVars, rVars, sVars, qVars, cVars, hVars, jVars, mVars, wVars, xVars>>

ReferencesNext == ExtractPortReferencesCall

\* IIF(ORDER_COUNT > 10, 'VIP', 'ACTIVE')
CustomerStatus ==
    <<"IIF", "(", "ORDER_COUNT", ">", "10", ",", "'VIP'", ",", "'ACTIVE'", ")">>

\* the expressions drawn: up to RefMaxLexemes lexemes, and the one above
RefMaxLexemes == 3
RefLexemes == {"IIF", "LTRIM", "(", ")", ",", "ORDER_COUNT", "A", "'VIP'", "10"}

InitReferences ==
    /\ eexpr \in SeqsUpTo(RefLexemes, RefMaxLexemes) \cup {CustomerStatus}
    /\ epc = "start" /\ erefs = {}
    /\ IdleLineage /\ IdleGraph /\ IdleResolve /\ IdleSequencer /\ IdleSql
    /\ IdleCalc /\ IdleHierarchy
    /\ IdleJil
    /\ IdleFormula
    /\ IdleWorkflow
    /\ IdleExtractor

SpecReferences == InitReferences /\ [][ReferencesNext]_vars

\* ---- an expression read lexeme by lexeme
IsQuotedLiteral(lexeme) == lexeme \in {"'VIP'", "'ACTIVE'"}
IsWordLexeme(lexeme) ==
    lexeme \in {"IIF", "LTRIM", "ORDER_COUNT", "A", "B", "C", "OUT", "VIP", "ACTIVE"}
\* a word is the name of a function where an opening parenthesis follows it
IsFunctionName(expr, i) ==
    IsWordLexeme(expr[i]) /\ i < Len(expr) /\ expr[i + 1] = "("
FieldTokens(expr) ==
    {expr[i] : i \in {j \in DOMAIN expr : IsWordLexeme(expr[j]) /\ ~IsFunctionName(expr, j)}}
FunctionNames(expr) ==
    {expr[i] : i \in {j \in DOMAIN expr : IsFunctionName(expr, j)}}

\* C17 as stated: the references returned are the field tokens of the
\* expression; a token that stands only inside a quoted literal or only as a
\* function name is never returned.
C17_FieldTokensOnly ==
    epc = "done" =>
        /\ FieldTokens(eexpr) \subseteq erefs
        /\ erefs \subseteq FieldTokens(eexpr)

\* IIF(ORDER_COUNT > 10, 'VIP', 'ACTIVE') gives ORDER_COUNT, VIP and ACTIVE
C17_Witness ==
    /\ epc = "done"
    /\ eexpr = CustomerStatus
    /\ erefs = {"ORDER_COUNT", "VIP", "ACTIVE"}

-----------------------------------------------------------------------------
(* The sources upstream of a target field, as a closure *)

\* the ports the expression of p references, if p is a port with one
NamedPorts(m, p) ==
    UNION {ExtractPortReferences(m.ports[q].expression) : q \in {p} \cap DOMAIN m.ports}

\* the pairs one step backwards from p: the upstream end of a connector into
\* p, or a port of p's instance named by the expression of p
StepsBackFrom(m, p) ==
    {<<m.connectors[i].from_instance, m.connectors[i].from_field>> :
        i \in {j \in DOMAIN m.connectors :
                  /\ m.connectors[j].to_instance = p[1]
                  /\ m.connectors[j].to_field = p[2]}}
    \cup {<<p[1], ref>> : ref \in NamedPorts(m, p)}

\* the pairs reachable from the pairs of S, stepping from no pair of a source
RECURSIVE ReachableFrom(_, _)
ReachableFrom(m, S) ==
    LET more == S \cup UNION {StepsBackFrom(m, p) : p \in {q \in S : q[1] \notin m.sources}}
    IN IF more = S THEN S ELSE ReachableFrom(m, more)

\* C18: a call that ends without passing the hop limit returns exactly the
\* pairs of source instances reachable from the target pair by stepping, from
\* pairs of instances that are not sources, backwards over a connector or to
\* a port of the same instance that the pair's expression references.
C18_ReachableSources ==
    (rpc = "done" /\ hops <= max_hops) =>
        rresult = {p \in ReachableFrom(rmapping, {rtarget}) : p[1] \in rmapping.sources}

\* T.C is fed by X.OUT, whose expression references the ports A and B of X,
\* each fed by a field of the source S
C18_Witness ==
    /\ rpc = "done" /\ hops <= max_hops
    /\ rtarget = <<"T", "C">>
    /\ rmapping.ports[<<"X", "OUT">>].expression # NoExpr
    /\ Connector("X", "OUT", "T", "C") \in Range(rmapping.connectors)
    /\ Cardinality(Range(rmapping.connectors)) = 3
    /\ rresult = {<<"S", "A">>, <<"S", "B">>}

-----------------------------------------------------------------------------
(* parse_jil_text (dh_infa_autosys/extractors/autosys_jil.py)               *)
(*                                                                          *)
(* The text is the sequence of its lines, each already stripped: a blank    *)
(* or comment line, "insert_job: NAME", "key: value", or a line without a   *)
(* colon.  jcurrent is <<>> for None and <<job>> otherwise.                 *)

BlankLine == [kind |-> "blank", key |-> "", value |-> ""]
InsertJobLine(name) == [kind |-> "insert_job", key |-> "insert_job", value |-> name]
AttributeLine(k, v) == [kind |-> "attribute", key |-> k, value |-> v]
ContinuationLine(v) == [kind |-> "continuation", key |-> "", value |-> v]

\* k.lower(), for the keys the model draws
LowerKey(k) ==
    CASE k \in {"box_name", "BOX_NAME", "Box_Name"} -> "box_name"
      [] k \in {"command", "COMMAND"} -> "command"
      [] k \in {"condition", "CONDITION"} -> "condition"
      [] k \in {"job_type", "JOB_TYPE"} -> "job_type"
      [] OTHER -> k

\* AutoSysJob(name=name); a text value is the sequence of the lines it holds
AutoSysJob(name) ==
    [name |-> name, job_type |-> "command", box_name |-> <<>>,
     command |-> <<>>, condition |-> <<>>, raw |-> EmptyDict]

\* export.boxes.setdefault(box, AutoSysBox(name=box)).jobs.add(name)
AddToBox(boxes, box, name) ==
    Put(boxes, box, [name |-> box, jobs |-> Get(boxes, box, [name |-> box, jobs |-> {}]).jobs \cup {name}])

\* flush(): the current job enters export.jobs and, if its box_name is not
\* empty, the jobs of its box
Flush(exp, cur) ==
    IF cur = <<>> THEN exp
    ELSE LET job == cur[1]
         IN [jobs  |-> Put(exp.jobs, job.name, job),
             boxes |-> IF job.box_name # <<>> /\ job.box_name[1] # ""
                       THEN AddToBox(exp.boxes, job.box_name[1], job.name)
                       ELSE exp.boxes]

\* a line without a colon continues the command and the condition of the job
Continue(job, line) ==
    LET with_command ==
            IF "command" \in DOMAIN job.raw
            THEN [job EXCEPT !.raw = Put(@, "command", job.raw["command"] \o <<line>>),
                             !.command = job.raw["command"] \o <<line>>]
            ELSE job
    IN IF "condition" \in DOMAIN with_command.raw
       THEN [with_command EXCEPT
                !.raw = Put(@, "condition", with_command.raw["condition"] \o <<line>>),
                !.condition = with_command.raw["condition"] \o <<line>>]
       ELSE with_command

\* current.raw[kl] = v, and the attribute of the job the key names
SetAttribute(job, k, v) ==
    LET kl == LowerKey(k)
        raw == Put(job.raw, kl, <<v>>)
    IN CASE kl = "job_type"  -> [job EXCEPT !.raw = raw, !.job_type = v]
         [] kl = "box_name"  -> [job EXCEPT !.raw = raw, !.box_name = <<v>>]
         [] kl = "command"   -> [job EXCEPT !.raw = raw, !.command = <<v>>]
         [] kl = "condition" -> [job EXCEPT !.raw = raw, !.condition = <<v>>]
         [] OTHER            -> [job EXCEPT !.raw = raw]

ParseJilText ==
    /\ jpc = "start"
    /\ jpc' = "lines" /\ jline' = 0 /\ jcurrent' = <<>>
    /\ export' = [jobs |-> EmptyDict, boxes |-> EmptyDict]
    /\ UNCHANGED <<jil_text, lbVars, gVars, rVars, sVars, qVars, cVars, hVars, eVars, mVars, wVars, xVars>>

JilLine == jil_text[jline + 1]

JilSkipLine ==
    /\ jpc = "lines" /\ jline < Len(jil_text)
    /\ JilLine.kind = "blank"
    /\ jline' = jline + 1
    /\ UNCHANGED <<jpc, jil_text, jcurrent, export,
                   lbVars, gVars, rVars, sVars, qVars, cVars, hVars, eVars, mVars, wVars, xVars>>

JilInsertJob ==
    /\ jpc = "lines" /\ jline < Len(jil_text)
    /\ JilLine.kind = "insert_job"
    /\ export' = Flush(export, jcurrent)
    /\ jcurrent' = <<AutoSysJob(JilLine.value)>>
    /\ jline' = jline + 1
    /\ UNCHANGED <<jpc, jil_text, lbVars, gVars, rVars, sVars, qVars, cVars, hVars, eVars, mVars, wVars, xVars>>

\* a line before the first insert_job
JilNoCurrent ==
    /\ jpc = "lines" /\ jline < Len(jil_text)
    /\ JilLine.kind \in {"attribute", "continuation"}
    /\ jcurrent = <<>>
    /\ jline' = jline + 1
    /\ UNCHANGED <<jpc, jil_text, jcurrent, export,
                   lbVars, gVars, rVars, sVars, qVars, cVars, hVars, eVars, mVars, wVars, xVars>>

JilContinuation ==
    /\ jpc = "lines" /\ jline < Len(jil_text)
    /\ JilLine.kind = "continuation"
    /\ jcurrent # <<>>
    /\ jcurrent' = <<Continue(jcurrent[1], JilLine.value)>>
    /\ jline' = jline + 1
    /\ UNCHANGED <<jpc, jil_text, export,
                   lbVars, gVars, rVars, sVars, qVars, cVars, hVars, eVars, mVars, wVars, xVars>>

JilAttribute ==
    /\ jpc = "lines" /\ jline < Len(jil_text)
    /\ JilLine.kind = "attribute"
    /\ jcurrent # <<>>
    /\ jcurrent' = <<SetAttribute(jcurrent[1], JilLine.key, JilLine.value)>>
    /\ jline' = jline + 1
    /\ UNCHANGED <<jpc, jil_text, export,
                   lbVars, gVars, rVars, sVars, qVars, cVars, hVars, eVars, mVars, wVars, xVars>>

\* the loop has ended: flush() and return export
JilReturn ==
    /\ jpc = "lines" /\ jline = Len(jil_text)
    /\ export' = Flush(export, jcurrent)
    /\ jcurrent' = <<>>
    /\ jpc' = "done"
    /\ UNCHANGED <<jil_text, jline, lbVars, gVars, rVars, sVars, qVars, cVars, hVars, eVars, mVars, wVars, xVars>>

JilNext ==
    \/ ParseJilText
    \/ JilSkipLine \/ JilInsertJob \/ JilNoCurrent \/ JilContinuation \/ JilAttribute
    \/ JilReturn

\* ---- the texts drawn: up to JilMaxLines lines
JilMaxLines == 4
JilLines ==
    {BlankLine, InsertJobLine("JOB_1"), InsertJobLine("JOB_2"),
     AttributeLine("box_name", "BOX_A"), AttributeLine("Box_Name", "BOX_B"),
     AttributeLine("box_name", ""), AttributeLine("command", "echo"),
     ContinuationLine("hi")}

InitJil ==
    /\ jil_text \in SeqsUpTo(JilLines, JilMaxLines)
    /\ jpc = "start" /\ jline = 0 /\ jcurrent = <<>>
    /\ export = [jobs |-> EmptyDict, boxes |-> EmptyDict]
    /\ IdleLineage /\ IdleGraph /\ IdleResolve /\ IdleSequencer /\ IdleSql
    /\ IdleCalc /\ IdleHierarchy /\ IdleReferences
    /\ IdleFormula
    /\ IdleWorkflow
    /\ IdleExtractor

SpecJil == InitJil /\ [][JilNext]_vars

\* the names of the jobs of the result whose box_name is B
JobsOfBox(B) == {n \in DOMAIN export.jobs : export.jobs[n].box_name = <<B>>}

\* the box names of the result: the keys of boxes and the box_name values
\* (empty ones aside) of its jobs
BoxNames ==
    (DOMAIN export.boxes)
        \cup {export.jobs[n].box_name[1] :
                 n \in {k \in DOMAIN export.jobs : export.jobs[k].box_name \notin {<<>>, <<"">>}}}

\* C19 as stated: when parse_jil_text has returned, every box name B is a key
\* of boxes and boxes[B].jobs is exactly the set of the names of the jobs of
\* the result whose box_name is B.
C19_BoxMembers ==
    jpc = "done" =>
        \A B \in BoxNames :
            /\ B \in DOMAIN export.boxes
            /\ export.boxes[B].jobs = JobsOfBox(B)

\* JOB_1 is defined in BOX_A and defined again in BOX_B: it is a member of
\* both boxes while its box_name is BOX_B
C19_Witness ==
    /\ jpc = "done"
    /\ jil_text = <<InsertJobLine("JOB_1"), AttributeLine("box_name", "BOX_A"),
                    InsertJobLine("JOB_1"), AttributeLine("Box_Name", "BOX_B")>>
    /\ export.jobs["JOB_1"].box_name = <<"BOX_B">>
    /\ export.boxes["BOX_A"].jobs = {"JOB_1"}
    /\ export.boxes["BOX_B"].jobs = {"JOB_1"}

-----------------------------------------------------------------------------
(* LineageExtractor.extract_member_formula_lineage, called again and again  *)
(* on one extractor                                                         *)
(*                                                                          *)
(* A formula is kept as what the patterns of _parse_formula_references find *)
(* in it: the member names in quotes or brackets, the dimension->member     *)
(* pairs, and the aggregation function it calls, if any.  mcube is <<>>     *)
(* before the first call and <<cube>> after a call on cube.                 *)

Formula(quoted, dim_members, aggregation) ==
    [quoted |-> quoted, dim_members |-> dim_members, aggregation |-> aggregation]

FormulaMember(name, formula) == [name |-> name, formula |-> formula]

\* the dimension of the cube of that name, as Optional: <<>> or <<name>>
DimensionNamed(c, dim_name) ==
    IF \E d \in DOMAIN c.dimensions : c.dimensions[d].name = dim_name
    THEN <<dim_name>> ELSE <<>>

\* the dimensions of the cube that hold a member of that name
DimensionsHolding(c, member_name) ==
    {d \in DOMAIN c.dimensions :
        \E i \in DOMAIN c.dimensions[d].members :
            c.dimensions[d].members[i].name = member_name}

ResolveMemberDimensionUncached(cache, member_name, c) ==
    LET holding == DimensionsHolding(c, member_name)
        cache_key == <<c.application, c.name, member_name>>
    IN IF holding = {}
       THEN [cache |-> cache, dim |-> <<>>]
       ELSE LET first == CHOOSE d \in holding : \A e \in holding : d <= e
            IN [cache |-> Put(cache, cache_key, c.dimensions[first].name),
                dim   |-> <<c.dimensions[first].name>>]

\* LineageExtractor._resolve_member_dimension, with the cache it reads and
\* the cache it leaves
ResolveMemberDimension(cache, member_name, c) ==
    LET cache_key == <<c.application, c.name, member_name>>
    IN IF cache_key \in DOMAIN cache
       THEN [cache |-> cache, dim |-> DimensionNamed(c, cache[cache_key])]
       ELSE ResolveMemberDimensionUncached(cache, member_name, c)

Reference(dim_name, member_name, aggregation) ==
    [field_path |-> <<dim_name, member_name>>, aggregation |-> aggregation]

\* the references of the quoted names from the k-th on, and the cache left
RECURSIVE QuotedReferences(_, _, _, _, _)
QuotedReferences(cache, formula, k, context_dimension, c) ==
    IF k > Len(formula.quoted) THEN [cache |-> cache, references |-> <<>>]
    ELSE LET r == ResolveMemberDimension(cache, formula.quoted[k], c)
             dim_name == IF r.dim # <<>> THEN r.dim[1] ELSE context_dimension.name
             rest == QuotedReferences(r.cache, formula, k + 1, context_dimension, c)
         IN [cache |-> rest.cache,
             references |->
                 <<Reference(dim_name, formula.quoted[k], formula.aggregation)>>
                     \o rest.references]

\* LineageExtractor._parse_formula_references
ParseFormulaReferences(cache, formula, context_dimension, c) ==
    LET q == QuotedReferences(cache, formula, 1, context_dimension, c)
    IN [cache |-> q.cache,
        references |->
            q.references
                \o [k \in DOMAIN formula.dim_members |->
                      Reference(formula.dim_members[k][1], formula.dim_members[k][2],
                                formula.aggregation)]]

FormulaMapping(dataset, dimension, member, source_ref) ==
    [source_dataset            |-> dataset,
     source_field              |-> source_ref.field_path,
     target_dataset            |-> dataset,
     target_field              |-> <<dimension.name, member.name>>,
     transformation_type       |-> "member_formula",
     transformation_expression |-> member.formula[1],
     confidence                |-> MappingDefaultConfidence,
     aggregation_function      |-> source_ref.aggregation]

\* the members with a formula, dimension by dimension: <<d, i>>
MembersWithFormula(c) ==
    Flatten([d \in DOMAIN c.dimensions |->
        LET ms == c.dimensions[d].members
            with == SelectSeq([i \in DOMAIN ms |-> i], LAMBDA i : ms[i].formula # <<>>)
        IN [k \in DOMAIN with |-> <<d, with[k]>>]])

\* the mappings of the members from the k-th on, and the cache left
RECURSIVE FormulaLineageFrom(_, _, _)
FormulaLineageFrom(cache, c, k) ==
    IF k > Len(MembersWithFormula(c)) THEN [cache |-> cache, mappings |-> <<>>]
    ELSE LET at == MembersWithFormula(c)[k]
             dimension == c.dimensions[at[1]]
             member == dimension.members[at[2]]
             refs == ParseFormulaReferences(cache, member.formula[1], dimension, c)
             rest == FormulaLineageFrom(refs.cache, c, k + 1)
         IN [cache |-> rest.cache,
             mappings |->
                 [j \in DOMAIN refs.references |->
                     FormulaMapping(<<c.application, c.name>>, dimension, member,
                                    refs.references[j])]
                     \o rest.mappings]

\* ---- the cubes a call may be given: Sample.Basic with the dimensions Year
\* and Period in either order; Year holds Calc, whose formula names Q1 and
\* perhaps more, and Q1 is a member of Year, of Period, of both or of neither
FormulasDrawn ==
    {Formula(<<"Q1">>, <<>>, <<>>),
     Formula(<<"Q1">>, <<>>, <<"SUM">>),
     Formula(<<"Q1", "Zed">>, << <<"Period", "P1">> >>, <<>>),
     Formula(<<>>, << <<"Year", "Q1">> >>, <<>>)}

FormulaCube(formula, in_year, in_period, year_first) ==
    LET year == [name |-> "Year",
                 members |-> <<FormulaMember("Calc", <<formula>>)>>
                       \o (IF in_year THEN <<FormulaMember("Q1", <<>>)>> ELSE <<>>)]
        period == [name |-> "Period",
                   members |-> <<FormulaMember("P1", <<>>)>>
                       \o (IF in_period THEN <<FormulaMember("Q1", <<>>)>> ELSE <<>>)]
    IN [application |-> "Sample", name |-> "Basic",
        dimensions |-> IF year_first THEN <<year, period>> ELSE <<period, year>>]

FormulaCubes ==
    {FormulaCube(f, y, p, o) :
        f \in FormulasDrawn, y \in BOOLEAN, p \in BOOLEAN, o \in BOOLEAN}

FormulaMaxCalls == 3

\* one call of extract_member_formula_lineage(cube, namespace)
ExtractMemberFormulaLineage ==
    /\ mcalls < FormulaMaxCalls
    /\ \E c \in FormulaCubes :
          LET r == FormulaLineageFrom(member_dimension_cache, c, 1)
          IN /\ mcube' = <<c>>
             /\ formula_lineage' = r.mappings
             /\ member_dimension_cache' = r.cache
    /\ mcalls' = mcalls + 1
    /\ UNCHANGED <<lbVars, gVars, rVars, sVars, qVars, cVars, hVars, eVars, jVars, wVars, xVars>>

FormulaNext == ExtractMemberFormulaLineage

\* LineageExtractor.__init__
InitFormula ==
    /\ mcalls = 0 /\ mcube = <<>> /\ formula_lineage = <<>>
    /\ member_dimension_cache = EmptyDict
    /\ IdleLineage /\ IdleGraph /\ IdleResolve /\ IdleSequencer /\ IdleSql
    /\ IdleCalc /\ IdleHierarchy /\ IdleReferences /\ IdleJil
    /\ IdleWorkflow
    /\ IdleExtractor

SpecFormula == InitFormula /\ [][FormulaNext]_vars

\* C20 as stated: nothing a call wrote is seen by a later call, so what a
\* call returns is what the same call returns on an extractor that has made
\* no call before.
C20_CallsIndependent ==
    mcube # <<>> =>
        formula_lineage = FormulaLineageFrom(EmptyDict, mcube[1], 1).mappings

\* Q1 was a member of Year in the cube of an earlier call and is a member of
\* Period only in the cube of this call: the reference of Calc's formula to
\* Q1 is still resolved to Year
C20_Witness ==
    /\ mcalls = 2
    /\ mcube = <<FormulaCube(Formula(<<"Q1">>, <<>>, <<>>), FALSE, TRUE, TRUE)>>
    /\ member_dimension_cache[<<"Sample", "Basic", "Q1">>] = "Year"
    /\ Len(formula_lineage) = 1
    /\ formula_lineage[1].source_field = <<"Year", "Q1">>
    /\ FormulaLineageFrom(EmptyDict, mcube[1], 1).mappings[1].source_field
          = <<"Period", "Q1">>

-----------------------------------------------------------------------------
(* The steps of one trace *)

\* the chains a trace has returned, and the steps of the trace that runs
StepLists ==
    {lineage_chains[c].chain : c \in DOMAIN lineage_chains} \cup {steps}

\* the steps of a list whose output is the pair p
StepsFor(list, p) == {k \in DOMAIN list : list[k].output_fields = <<p>>}

\* the steps of a list that name the pair p among their inputs
StepsFedBy(list, p) == {k \in DOMAIN list : p \in Range(list[k].input_fields)}

\* C21: a trace expands every (instance, field) pair at most once: as many
\* pairs are marked visited as calls passed the visited check, and no chain
\* holds two steps with the same output pair, however many steps name that
\* pair among their inputs; the one step stands after a step that names it.
C21_ExpandedOnce ==
    /\ pc = "tracing" => processed = Cardinality(visited)
    /\ \A list \in StepLists :
          \A k \in DOMAIN list :
              /\ StepsFor(list, list[k].output_fields[1]) = {k}
              /\ k > 1 => \E j \in StepsFedBy(list, list[k].output_fields[1]) : j < k

\* a diamond: S.A feeds T.A directly and through X.A; the chain of T.A holds
\* one step for S.A, recorded below X.A, on the path found first
C21_Witness ==
    /\ pc = "lineage"
    /\ \E c \in DOMAIN lineage_chains :
          LET chain == lineage_chains[c].chain
          IN /\ Len(chain) = 3
             /\ chain[1].output_fields = << <<"T", "A">> >>
             /\ chain[1].input_fields = << <<"X", "A">>, <<"S", "A">> >>
             /\ chain[2].output_fields = << <<"X", "A">> >>
             /\ chain[3].output_fields = << <<"S", "A">> >>
             /\ StepsFedBy(chain, <<"S", "A">>) = {1, 2}

\* the positions of a chain at which a trace went on from the step before:
\* the step at k + 1 was recorded by a call made for an input of the step at k
DescendsAt(list, k) ==
    /\ k + 1 \in DOMAIN list
    /\ list[k + 1].step_order = list[k].step_order + 1
    /\ list[k + 1].output_fields[1] \in Range(list[k].input_fields)

\* C22 as stated: the step of a Source Definition instance ends its branch:
\* the trace follows no connector into the source, so no step for a field
\* upstream of it comes after it in the chain.
C22_SourceEndsBranch ==
    \A list \in StepLists :
        \A k \in DOMAIN list :
            list[k].transformation_type = SOURCE_DEFINITION => ~DescendsAt(list, k)

\* X.A is connected into the source field S.A, which feeds T.A: the chain of
\* T.A holds a step for X.A below the step of S.A
C22_Witness ==
    /\ pc = "lineage"
    /\ \E c \in DOMAIN lineage_chains :
          LET chain == lineage_chains[c].chain
          IN /\ Len(chain) = 3
             /\ chain[2].output_fields = << <<"S", "A">> >>
             /\ chain[2].transformation_type = SOURCE_DEFINITION
             /\ chain[3].output_fields = << <<"X", "A">> >>
             /\ chain[3].step_order = 2
             /\ <<"X", "A">> \in visited

\* the ports of its own transformation that the expression of a step names
ReferencedPorts(step) ==
    LET instance == InstanceGet(mapping, step.instance_name)
    IN IF HasTransformation(mapping, folder, instance)
       THEN {step.expression[i] : i \in DOMAIN step.expression}
                \cap DOMAIN GetTransformation(mapping, folder, instance).fields
       ELSE {}

\* C23 as stated: where a returned chain holds the step of an Expression
\* instance whose traced field has an expression, it holds a step for every
\* port of that instance the expression references.
C23_ReferencesTraced ==
    \A c \in DOMAIN lineage_chains :
        LET chain == lineage_chains[c].chain
        IN \A k \in DOMAIN chain :
              (chain[k].transformation_type = EXPRESSION /\ chain[k].expression # NoExpr) =>
                  \A ref \in ReferencedPorts(chain[k]) :
                      StepsFor(chain, <<chain[k].instance_name, ref>>) # {}

\* S.A feeds X.A, X.OUT is A + 1 and feeds T.A: the chain of T.A ends at
\* X.OUT, and no edge reaches the column A of the target
C23_Witness ==
    /\ pc = "done"
    /\ mapping.connectors = <<Connector("S", "A", "X", "A"), Connector("X", "OUT", "T", "A")>>
    /\ \E c \in DOMAIN lineage_chains :
          /\ lineage_chains[c].key = <<"TGT", "A">>
          /\ Len(lineage_chains[c].chain) = 2
          /\ lineage_chains[c].chain[2].output_fields = << <<"X", "OUT">> >>
          /\ lineage_chains[c].chain[2].expression = <<"A", "+", "1">>
          /\ lineage_chains[c].chain[2].input_fields = <<>>
    /\ edges = <<>>

-----------------------------------------------------------------------------
(* C24: the step_order of the steps of a chain *)

\* C24: the steps of a chain come in the order of their discovery and are
\* numbered by one counter that starts at 0 and grows by one after each
\* recorded step: the step at position k of a chain (counted from 1) has
\* step_order k - 1, and no two steps of a chain have the same step_order.
C24_SingleCounter ==
    \A list \in StepLists :
       /\ \A k \in DOMAIN list : list[k].step_order = k - 1
       /\ \A j, k \in DOMAIN list : list[j].step_order = list[k].step_order => j = k

\* the target field T.A fed by X.A and by S.A: both upstream steps are
\* recorded by calls made with step_order + 1 of the same caller
C24_Witness ==
    /\ pc = "lineage"
    /\ mapping.connectors = <<Connector("X", "A", "T", "A"), Connector("S", "A", "T", "A")>>
    /\ \E c \in DOMAIN lineage_chains :
          LET chain == lineage_chains[c].chain
          IN /\ Len(chain) = 3
             /\ chain[1].output_fields = << <<"T", "A">> >>
             /\ chain[2].output_fields = << <<"X", "A">> >>
             /\ chain[3].output_fields = << <<"S", "A">> >>
             /\ chain[1].step_order = 0
             /\ chain[2].step_order = 1
             /\ chain[3].step_order = 1

-----------------------------------------------------------------------------
(* C25: step_order along the edges of an acyclic graph *)

\* the connectors of a mapping as edges between (instance, field) pairs
FieldEdges(m) ==
    {<< <<c.from_instance, c.from_field>>, <<c.to_instance, c.to_field>> >> :
        c \in Range(m.connectors)}

RECURSIVE FieldClosure(_, _)
FieldClosure(E, n) ==
    IF n = 0 THEN E
    ELSE FieldClosure(E \cup {<<p[1][1], p[2][2]>> :
                                 p \in {q \in E \X E : q[1][2] = q[2][1]}},
                      n - 1)

\* no (instance, field) pair is upstream of itself
FieldAcyclic(m) ==
    \A e \in FieldClosure(FieldEdges(m), Len(m.connectors)) : e[1] # e[2]

\* C25: in a chain traced on an acyclic graph, whenever a step X lists the
\* pair (n, f) among its inputs and the chain holds a step Y for (n, f), the
\* step_order of Y is greater than the step_order of X.
C25_UpstreamLater ==
    FieldAcyclic(mapping) =>
       \A c \in DOMAIN lineage_chains :
          LET chain == lineage_chains[c].chain
          IN \A x, y \in DOMAIN chain :
                chain[y].output_fields[1] \in Range(chain[x].input_fields)
                   => chain[y].step_order > chain[x].step_order

\* the acyclic diamond S.A -> T.A, X.A -> T.A, S.A -> X.A, with the direct
\* connector first: S.A is recorded one call below T.A, and so is X.A, which
\* lists S.A among its inputs
C25_Witness ==
    /\ pc = "lineage"
    /\ FieldAcyclic(mapping)
    /\ \E c \in DOMAIN lineage_chains :
          LET chain == lineage_chains[c].chain
          IN /\ Len(chain) = 3
             /\ chain[2].output_fields = << <<"S", "A">> >>
             /\ chain[3].output_fields = << <<"X", "A">> >>
             /\ chain[3].input_fields = << <<"S", "A">> >>
             /\ chain[2].step_order = 1
             /\ chain[3].step_order = 1

-----------------------------------------------------------------------------
(* C26: a query override that is a procedure call *)

\* the edges _parse_sql_lineage made for one step of one chain
QueryEdgesOf(key, step) ==
    {i \in DOMAIN edges :
        /\ edges[i].origin \in {"call", "projection"}
        /\ edges[i].target_dataset = <<key[1]>> /\ edges[i].target_column = key[2]
        /\ edges[i].step_order = step.step_order}

\* C26: when the text of the query override of a source qualifier matches a
\* procedure call, exactly one edge is emitted for its step: the source
\* column is the wildcard "*", the confidence is 1.0, the source dataset is
\* the procedure, and no edge is derived from a projection.
C26_CallEdgeOnly ==
    DetectStoredProcedureCall(TheQuery.text) # <<>> =>
        /\ \A i \in DOMAIN edges :
              /\ edges[i].origin # "projection"
              /\ edges[i].transformation_type # SOURCE_QUALIFIER
        /\ \A c \in DOMAIN ChainsDone : \A k \in DOMAIN ChainsDone[c].chain :
              LET step == ChainsDone[c].chain[k]
                  made == QueryEdgesOf(ChainsDone[c].key, step)
              IN step.instance_name = "Q" =>
                    /\ Cardinality(made) = 1
                    /\ \A i \in made :
                          /\ edges[i].source_column = "*"
                          /\ edges[i].confidence_score = 100
                          /\ edges[i].source_dataset = <<"PKG", "GET_KEY">>
                          /\ edges[i].transformation_type = STORED_PROCEDURE

\* the query of Q is BEGIN PKG.GET_KEY(:1,:2); END; and Q is on the chains of
\* both target fields, next to a step that gave an edge of its own
C26_Witness ==
    /\ pc = "done"
    /\ TheQuery = CallQuery
    /\ \E i \in DOMAIN edges : edges[i].origin = "call" /\ edges[i].target_column = "A"
    /\ \E i \in DOMAIN edges : edges[i].origin = "call" /\ edges[i].target_column = "B"
    /\ \E i \in DOMAIN edges : edges[i].origin \notin {"call", "projection"}

-----------------------------------------------------------------------------
(* C27: the sequences that runs on one mapping return *)

\* every list _get_transformation_order can return from the state of its
\* while loop, over the orders in which the sets of outgoing are walked
RECURSIVE SeqOutcomesFrom(_, _, _, _)
SeqOutcomesFrom(m, inc, queue, res) ==
    IF queue = <<>> THEN {res \o Remaining(m, res)}
    ELSE UNION {LET r == Release(inc, Tail(queue), Head(queue), order)
                IN SeqOutcomesFrom(m, r.incoming, r.no_incoming, Append(res, Head(queue))) :
                   order \in IterationOrders(OutgoingOf(m)[Head(queue)])}

SeqOutcomes(m) == SeqOutcomesFrom(m, IncomingOf(m), NoIncoming(m, IncomingOf(m)), <<>>)

\* C27: the list returned is a function of the mapping (its instances and
\* connectors in their insertion order): any two runs on the same mapping
\* return the same list.
C27_SameSequence ==
    spc = "done" => SeqOutcomes(mapping) = {result}

\* A feeds B and C, inserted in that order, and the run returned C before B
C27_Witness ==
    /\ spc = "done"
    /\ NamesInOrder(mapping) = <<"A", "B", "C">>
    /\ mapping.connectors = <<Connector("A", "F", "B", "F"), Connector("A", "F", "C", "F")>>
    /\ result = <<"A", "C", "B">>
    /\ <<"A", "B", "C">> \in SeqOutcomes(mapping)

-----------------------------------------------------------------------------
(* C28: the instances the while loop leaves unresolved *)

\* the while loop has ended and the remaining instances are not yet appended
SeqLoopEnded == spc = "loop" /\ no_incoming = <<>>

\* the instances the loop did not append to result
SeqLeftOver == InstanceNames(mapping) \ Range(result)

-----------------------------------------------------------------------------
(* InformaticaXMLParser._parse_workflow *)

\* the TASKINSTANCE and WORKFLOWLINK elements of a WORKFLOW element
TaskInstance(name, task_type) == [name |-> name, task_type |-> task_type]
WorkflowLink(from_task, to_task) == [from_task |-> from_task, to_task |-> to_task]

\* task_order: the names of the Session task instances, as the keys of the
\* dict in their insertion order (a name assigned again keeps its place)
TaskOrder(tasks) ==
    DistinctInOrder(
        LET s == SelectSeq(tasks, LAMBDA t : t.task_type = "Session")
        IN [i \in DOMAIN s |-> s[i].name])

\* next_tasks[from_task]: the list of the to_tasks of its links, in link order
NextTasks(links) ==
    [f \in {links[i].from_task : i \in DOMAIN links} |->
        LET s == SelectSeq(links, LAMBDA l : l.from_task = f)
        IN [i \in DOMAIN s |-> s[i].to_task]]

\* start_tasks = [t for t in task_order.keys() if t not in all_to_tasks]
StartTasks(order, links) ==
    SelectSeq(order, LAMBDA t : t \notin {links[i].to_task : i \in DOMAIN links})

\* workflow.sessions = ordered_sessions if ordered_sessions else list(task_order.keys())
SessionsOr(ordered, order) == IF ordered # <<>> THEN ordered ELSE order

\* the call up to the while loop, or up to its return when there are no links
ParseWorkflow ==
    /\ wpc = "start"
    /\ task_order' = TaskOrder(task_instances)
    /\ IF workflow_links # <<>>
       THEN /\ next_tasks' = NextTasks(workflow_links)
            /\ wqueue' = StartTasks(TaskOrder(task_instances), workflow_links)
            /\ wpc' = "traverse"
            /\ UNCHANGED workflow_sessions
       ELSE /\ workflow_sessions' = TaskOrder(task_instances)
            /\ wpc' = "done"
            /\ UNCHANGED <<next_tasks, wqueue>>
    /\ UNCHANGED <<task_instances, workflow_links, wvisited, ordered_sessions>>
    /\ UNCHANGED <<lbVars, gVars, rVars, sVars, qVars, cVars, hVars, eVars, jVars, mVars, xVars>>

\* one iteration of "while queue"
WorkflowPop ==
    /\ wpc = "traverse" /\ wqueue # <<>>
    /\ LET current == Head(wqueue)
       IN IF current \in wvisited
          THEN /\ wqueue' = Tail(wqueue)
               /\ UNCHANGED <<wvisited, ordered_sessions>>
          ELSE /\ wvisited' = wvisited \cup {current}
               /\ ordered_sessions' =
                     IF current \in Range(task_order)
                     THEN Append(ordered_sessions, current) ELSE ordered_sessions
               /\ wqueue' = Tail(wqueue) \o Get(next_tasks, current, <<>>)
    /\ UNCHANGED <<wpc, task_instances, workflow_links, task_order, next_tasks,
                   workflow_sessions>>
    /\ UNCHANGED <<lbVars, gVars, rVars, sVars, qVars, cVars, hVars, eVars, jVars, mVars, xVars>>

\* the loop has ended
WorkflowReturn ==
    /\ wpc = "traverse" /\ wqueue = <<>>
    /\ workflow_sessions' = SessionsOr(ordered_sessions, task_order)
    /\ wpc' = "done"
    /\ UNCHANGED <<task_instances, workflow_links, task_order, next_tasks, wqueue,
                   wvisited, ordered_sessions>>
    /\ UNCHANGED <<lbVars, gVars, rVars, sVars, qVars, cVars, hVars, eVars, jVars, mVars, xVars>>

WorkflowNext == ParseWorkflow \/ WorkflowPop \/ WorkflowReturn

\* ---- workflows of up to WfMaxTasks task instances with distinct names, a
\*      Start task or sessions, and up to WfMaxLinks links from the Start
\*      task to a session or between two sessions
WfMaxTasks == 3
WfMaxLinks == 3

WfSessions == {"S1", "S2", "S3"}

WfTaskChoices ==
    {TaskInstance("Start", "Start")} \cup {TaskInstance(n, "Session") : n \in WfSessions}

WfTaskLists ==
    {s \in SeqsUpTo(WfTaskChoices, WfMaxTasks) :
        \A i, j \in DOMAIN s : i # j => s[i].name # s[j].name}

WfLinkChoices ==
    {WorkflowLink("Start", n) : n \in WfSessions} \cup
    {WorkflowLink(p[1], p[2]) : p \in {q \in WfSessions \X WfSessions : q[1] # q[2]}}

InitWorkflow ==
    /\ mapping = [instances |-> <<>>, connectors |-> <<>>, transformations |-> EmptyDict]
    /\ folder = [sources |-> EmptyDict, source_order |-> <<>>, targets |-> EmptyDict,
                 transformations |-> EmptyDict]
    /\ BuilderIdle
    /\ IdleGraph /\ IdleResolve /\ IdleSequencer /\ IdleSql
    /\ IdleCalc
    /\ IdleHierarchy
    /\ IdleReferences
    /\ IdleJil
    /\ IdleFormula
    /\ wpc = "start"
    /\ task_instances \in WfTaskLists
    /\ workflow_links \in SeqsUpTo(WfLinkChoices, WfMaxLinks)
    /\ task_order = <<>> /\ next_tasks = <<>> /\ wqueue = <<>> /\ wvisited = {}
    /\ ordered_sessions = <<>> /\ workflow_sessions = <<>>
    /\ IdleExtractor

SpecWorkflow == InitWorkflow /\ [][WorkflowNext]_vars

\* ---- what the workflow says, independently of the traversal
WfSessionTasks ==
    {task_instances[i].name :
        i \in {k \in DOMAIN task_instances : task_instances[k].task_type = "Session"}}

WfLinkPairs == {<<workflow_links[i].from_task, workflow_links[i].to_task>> :
                   i \in DOMAIN workflow_links}

\* <<a, b>> \in WfLeadsTo: a chain of one or more links leads from a to b
WfLeadsTo == PathsUpTo(WfLinkPairs, Len(workflow_links))

\* C29: the session list of a workflow holds every Session task instance
\* exactly once, and whenever a chain of links leads from a session a to a
\* session b, a comes before b in the list.
C29_ExecutionOrder ==
    wpc = "done" =>
        /\ Range(workflow_sessions) = WfSessionTasks
        /\ NoDuplicates(workflow_sessions)
        /\ \A a, b \in WfSessionTasks :
              <<a, b>> \in WfLeadsTo =>
                  PositionIn(workflow_sessions, a) < PositionIn(workflow_sessions, b)

\* Start -> S1 -> S2 with the task instances listed as Start, S2, S1: every
\* session is the target of a link, no task starts the traversal, and the
\* list is the order of the task instances
C29_Witness ==
    /\ wpc = "done"
    /\ task_instances = <<TaskInstance("Start", "Start"), TaskInstance("S2", "Session"),
                          TaskInstance("S1", "Session")>>
    /\ workflow_links = <<WorkflowLink("Start", "S1"), WorkflowLink("S1", "S2")>>
    /\ wvisited = {}
    /\ workflow_sessions = <<"S2", "S1">>

-----------------------------------------------------------------------------
(* InformaticaLineageExtractor: process_xml_file and _process_folder *)

\* a session of a workflow of a folder: whether folder.sessions and
\* folder.mappings hold it and its mapping, and the edges
\* build_column_lineage_edges returns for it
FolderSession(found, lineage_edges) == [found |-> found, lineage_edges |-> lineage_edges]

\* the edges of the sessions of one folder, in the order of the sessions
FolderEdges(f) ==
    Flatten([i \in DOMAIN f |-> IF f[i].found THEN f[i].lineage_edges ELSE <<>>])

\* process_xml_file: self.folders = self.parser.parse_file(xml_path)
ProcessXmlFile ==
    /\ xpc = "ready" /\ xml_files # <<>>
    /\ folders_left' = Head(xml_files)
    /\ xml_files' = Tail(xml_files)
    /\ xpc' = "folders"
    /\ UNCHANGED <<xfolder, xsession, all_lineage_edges, emitter_mcps>>
    /\ UNCHANGED <<lbVars, gVars, rVars, sVars, qVars, cVars, hVars, eVars, jVars, mVars, wVars>>

\* for folder_name, folder in self.folders.items(): self._process_folder(folder)
ProcessFolder ==
    /\ xpc = "folders" /\ folders_left # <<>>
    /\ xfolder' = Head(folders_left)
    /\ folders_left' = Tail(folders_left)
    /\ xsession' = 1
    /\ xpc' = "sessions"
    /\ UNCHANGED <<xml_files, all_lineage_edges, emitter_mcps>>
    /\ UNCHANGED <<lbVars, gVars, rVars, sVars, qVars, cVars, hVars, eVars, jVars, mVars, wVars>>

\* one session of the folder: skipped when it or its mapping is not found,
\* else self.all_lineage_edges.extend(lineage_edges).  emitter_mcps keeps the
\* UpstreamLineage proposals of emitter.mcps; the DataFlow and DataJob aspects
\* that emit_workflow and emit_session_as_datajob buffer are not kept in it.
ProcessSession ==
    /\ xpc = "sessions" /\ xsession \in DOMAIN xfolder
    /\ all_lineage_edges' =
          IF xfolder[xsession].found
          THEN all_lineage_edges \o xfolder[xsession].lineage_edges
          ELSE all_lineage_edges
    /\ xsession' = xsession + 1
    /\ UNCHANGED <<xpc, xml_files, folders_left, xfolder, emitter_mcps>>
    /\ UNCHANGED <<lbVars, gVars, rVars, sVars, qVars, cVars, hVars, eVars, jVars, mVars, wVars>>

\* the end of _process_folder:
\* if self.all_lineage_edges: self.emitter.emit_dataset_lineage(folder, self.all_lineage_edges)
EmitFolderLineage ==
    /\ xpc = "sessions" /\ xsession \notin DOMAIN xfolder
    /\ emitter_mcps' =
          IF all_lineage_edges # <<>>
          THEN emitter_mcps \o EmitDatasetLineageOf(all_lineage_edges)
          ELSE emitter_mcps
    /\ xpc' = "folders"
    /\ UNCHANGED <<xml_files, folders_left, xfolder, xsession, all_lineage_edges>>
    /\ UNCHANGED <<lbVars, gVars, rVars, sVars, qVars, cVars, hVars, eVars, jVars, mVars, wVars>>

\* process_xml_file returns self.folders
ProcessXmlFileReturn ==
    /\ xpc = "folders" /\ folders_left = <<>>
    /\ xpc' = "ready"
    /\ UNCHANGED <<xml_files, folders_left, xfolder, xsession, all_lineage_edges,
                   emitter_mcps>>
    /\ UNCHANGED <<lbVars, gVars, rVars, sVars, qVars, cVars, hVars, eVars, jVars, mVars, wVars>>

ExtractorNext ==
    \/ ProcessXmlFile
    \/ ProcessFolder
    \/ ProcessSession
    \/ EmitFolderLineage
    \/ ProcessXmlFileReturn

\* ---- up to ExtMaxFiles files of up to ExtMaxFolders folders of up to
\*      ExtMaxSessions sessions; a session is not found, or gives the edge
\*      SRC1.A -> TGT1.A, or the edge SRC2.A -> TGT2.A
ExtMaxFiles == 2
ExtMaxFolders == 2
ExtMaxSessions == 2

ExtEdge(source, target) ==
    ColumnLineageEdge("source", <<source>>, "A", <<target>>, "A", SOURCE_DEFINITION,
                      NoExpr, 1, DefaultConfidence)

ExtSessions ==
    {FolderSession(FALSE, <<>>),
     FolderSession(TRUE, <<ExtEdge("SRC1", "TGT1")>>),
     FolderSession(TRUE, <<ExtEdge("SRC2", "TGT2")>>)}

ExtFolders == SeqsUpTo(ExtSessions, ExtMaxSessions)
ExtFiles == SeqsUpTo(ExtFolders, ExtMaxFolders)

InitExtractor ==
    /\ mapping = [instances |-> <<>>, connectors |-> <<>>, transformations |-> EmptyDict]
    /\ folder = [sources |-> EmptyDict, source_order |-> <<>>, targets |-> EmptyDict,
                 transformations |-> EmptyDict]
    /\ BuilderIdle
    /\ IdleGraph /\ IdleResolve /\ IdleSequencer /\ IdleSql
    /\ IdleCalc
    /\ IdleHierarchy
    /\ IdleReferences
    /\ IdleJil
    /\ IdleFormula
    /\ IdleWorkflow
    /\ xpc = "ready"
    /\ xml_files \in SeqsUpTo(ExtFiles, ExtMaxFiles)
    /\ folders_left = <<>> /\ xfolder = <<>> /\ xsession = 0
    /\ all_lineage_edges = <<>> /\ emitter_mcps = <<>>

SpecExtractor == InitExtractor /\ [][ExtractorNext]_vars

\* _process_folder is at its last statement
AtFolderEnd == xpc = "sessions" /\ xsession \notin DOMAIN xfolder

\* C30: the dataset-level lineage emitted at the end of a folder is built from
\* the edges of the sessions of that folder only: what the folder adds to the
\* buffered proposals is what emit_dataset_lineage makes of those edges, so
\* that every edge is emitted once and no edge of an earlier folder again.
C30_OwnEdgesOnly ==
    [][AtFolderEnd =>
          emitter_mcps' = emitter_mcps \o EmitDatasetLineageOf(FolderEdges(xfolder))]_vars

\* two files of one folder each: the session of the first gives an edge into
\* TGT1, the session of the second an edge into TGT2, and the buffer holds
\* the proposal of TGT1 twice
C30_Witness ==
    /\ xpc = "ready" /\ xml_files = <<>>
    /\ xfolder = <<FolderSession(TRUE, <<ExtEdge("SRC2", "TGT2")>>)>>
    /\ all_lineage_edges = <<ExtEdge("SRC1", "TGT1"), ExtEdge("SRC2", "TGT2")>>
    /\ [i \in DOMAIN emitter_mcps |-> emitter_mcps[i].entityUrn]
          = << <<"TGT1">>, <<"TGT1">>, <<"TGT2">> >>

====
